---- MODULE Spec2Model ----
(***************************************************************************)
(* Model of the agent orchestration core of smart-review-v2.js:           *)
(*   ResultCache (get / set / evictOldest / getCacheKey / clear),          *)
(*   SecurityUtils (validatePath, executeCommand, sanitizeError,           *)
(*   escapeHtml), AgentSandbox (execute, parseAgentOutput, sanitizeResult) *)
(*   and ParallelExecutor.executeAgents.                                   *)
(*                                                                         *)
(* The specifications share the variables:                                 *)
(*   SpecCache  the cache driven by a caller that awaits each call;        *)
(*   SpecAlias  the same, with a caller that mutates the objects it holds; *)
(*   SpecConc   the cache under get()/set() calls that overlap;            *)
(*   SpecExec   one executeAgents call, from its arguments to its return;  *)
(*   SpecGuard  calls of validatePath, executeCommand and of the two       *)
(*              facades of a sandbox, for inputs drawn from bounded sets;  *)
(*   SpecText   calls of sanitizeError, escapeHtml, parseAgentOutput and  *)
(*              sanitizeResult, for texts drawn from a bounded set.        *)
(* Every `await` of the source is a suspension point: other enabled steps  *)
(* (another run's continuation, the clock, a timer) may happen there.      *)
(***************************************************************************)
EXTENDS Integers, Sequences, FiniteSets, Bags, TLC

VARIABLES
  clock,       \* Date.now(), in clock ticks (one tick = one distinct value)
  cache,       \* ResultCache.cache: the Map, as its entries in insertion order
  own,         \* the value of the result object the caller passes to set()
  ret,         \* the last completed get(): its request and outcome ("none" before)
  pend,        \* the bag of the get()/set() calls under way, each at an await
  agents,      \* executeAgents argument: the workers, in input order
  cwd,         \* process.cwd() of the running process
  tier,        \* executeAgents: index of the group of the for-loop being run
  phase,       \* executeAgents: "start" | "join" | "returned" | "rejected"
  run,         \* per worker: the state of its AgentSandbox.execute call
  results,     \* executeAgents: the `results` array
  elapsed,     \* minutes since the current group was launched
  spawns,      \* number of execFile calls made (process invocations)
  sbx,         \* a sandbox: the files and the worker's allowedCommands it was built for
  call,        \* the last call made to a guard or to a facade of the sandbox
  text,        \* a text: the stdout of a worker process, or the message of an error
  res          \* the last call made on `text` and what it returned

cacheVars == <<clock, cache, own, ret, pend>>
execVars  == <<agents, cwd, tier, phase, run, results, elapsed, spawns>>
guardVars == <<sbx, call>>
textVars  == <<text, res>>
vars      == <<clock, cache, own, ret, pend,
               agents, cwd, tier, phase, run, results, elapsed, spawns,
               sbx, call, text, res>>

(***************************************************************************)
(* Bounds of the model.                                                    *)
(***************************************************************************)
\* ResultCache.maxSize is 100 in the source; the model runs the same code
\* with a smaller capacity.
maxSize == 2
\* ResultCache.ttl is 15 * 60 * 1000 ms in the source, scaled to clock ticks.
ttl == 2
\* Date.now() ranges over 0 .. MaxClock.
MaxClock == 3
\* Distinct requests (agent, files, iteration) the callers use.
MaxReqs == 3
\* get()/set() calls in flight at a time.
MaxPending == 2

(***************************************************************************)
(* ResultCache                                                             *)
(***************************************************************************)
\* The 15-minute key bucket of getCacheKey: the same 15 * 60 * 1000 as ttl.
BucketMs == ttl

\* A result object, reduced to what get/set can observe: the number of
\* issues it holds and whether it has a property whose value is `undefined`
\* (sanitizeResult builds `file: undefined` and `error: undefined`).
ResultValues == [n : 0..1, undef : BOOLEAN]

\* A request: the agent (its id and model), the file set and the iteration.
\* One request names a file that cannot be read.
Requests ==
  {[agent |-> a, file |-> "readable"] : a \in 1..(MaxReqs - 1)}
    \cup {[agent |-> 1, file |-> "unreadable"]}

\* What hashFile returns when it returns at time now: the SHA-256 of the
\* content; from its catch block (fs.stat or fs.readFile threw, or the file
\* is too large), the SHA-256 of filePath + Date.now().
hashFile(file, now) ==
  IF file = "readable" THEN <<"content">> ELSE <<"surrogate", now>>

\* getCacheKey, from the file hashes on: SHA-256 over agent id/model, the
\* sorted file hashes, the iteration and the 15-minute bucket of Date.now().
\* The digest is modelled by the tuple it is computed from (SHA-256 is taken
\* as injective).
getCacheKey(req, fileHashes, now) ==
  <<req.agent, fileHashes, now \div BucketMs>>

\* Map.prototype.get on the entry sequence: the index of key, 0 if absent.
IndexOfKey(c, key) ==
  IF \E i \in 1..Len(c) : c[i].key = key
    THEN CHOOSE i \in 1..Len(c) : c[i].key = key
    ELSE 0

RemoveAt(c, i) == SubSeq(c, 1, i - 1) \o SubSeq(c, i + 1, Len(c))

\* The loop of evictOldest, over entries i..Len(c), carrying
\* (oldestKey as an index, oldestTime).
RECURSIVE EvictScan(_, _, _, _)
EvictScan(c, i, oldestIdx, oldestTime) ==
  IF i > Len(c) THEN oldestIdx
  ELSE IF c[i].timestamp < oldestTime
    THEN EvictScan(c, i + 1, i, c[i].timestamp)
    ELSE EvictScan(c, i + 1, oldestIdx, oldestTime)

\* evictOldest: oldestTime starts at Date.now(); an entry is chosen only if
\* its timestamp is strictly smaller; the chosen entry is deleted.
evictOldest(c, now) ==
  LET idx == EvictScan(c, 1, 0, now)
  IN IF idx # 0 THEN RemoveAt(c, idx) ELSE c

\* A set() that stores the caller's object itself.
deepCopy_alias(v) == [ref |-> "arg", val |-> v]

\* JSON.parse(JSON.stringify(result)): a new object ("copy", as opposed to
\* "arg", the caller's own object); properties whose value is undefined are
\* dropped.
deepCopy(v) == [ref |-> "copy", val |-> [n |-> v.n, undef |-> FALSE]]

\* Map.prototype.set: an existing key keeps its position, a new one is
\* appended.
MapSet(c, key, entry) ==
  LET i == IndexOfKey(c, key)
  IN IF i # 0 THEN [c EXCEPT ![i] = entry] ELSE Append(c, entry)

\* What a cache entry's result object holds now. An entry holds
\*   ref     "copy": an object of its own, val;  "arg": the caller's object
\*   held    the caller has a reference to the entry's object
\*   stored  the value the object had when set() stored it
EntryValue(e) == IF e.ref = "arg" THEN own ELSE e.val

\* cached.result as get() hands it out: the entry's own object, so the
\* caller now holds a reference to it.
getReturn(e) == [e EXCEPT !.held = TRUE]

\* ret before any get() has completed.
NoGet ==
  [status |-> "none", req |-> [agent |-> 0, file |-> "none"],
   found |-> FALSE, age |-> 0]

\* No sandbox has been built, no guard called.
NoSandbox == [files |-> {}, allowedCommands |-> {}]
NoCall ==
  [op |-> "none", path |-> <<>>, line |-> <<>>, command |-> "none",
   out |-> "none", resolved |-> <<>>, executed |-> FALSE, spawned |-> FALSE]

\* res before any call on a text.
NoRes ==
  [op |-> "none", out |-> <<>>,
   result |-> [agentId |-> <<>>, agentName |-> <<>>, issues |-> <<>>,
               rawOutput |-> <<>>, error |-> <<>>]]

\* No executeAgents call is under way.
ExecIdle ==
  /\ agents = <<>>
  /\ cwd = <<>>
  /\ tier = 0
  /\ phase = "returned"
  /\ run = <<>>
  /\ results = <<>>
  /\ elapsed = 0
  /\ spawns = 0
  /\ sbx = NoSandbox
  /\ call = NoCall
  /\ text = <<>>
  /\ res = NoRes

\* A new ResultCache, and the result object its caller holds.
CacheInit ==
  /\ clock = 0
  /\ cache = <<>>
  /\ own \in {v \in ResultValues : v.n = 0}
  /\ ret = NoGet
  /\ pend = EmptyBag
  /\ ExecIdle

\* Date.now() advances.
Tick ==
  /\ clock < MaxClock
  /\ clock' = clock + 1
  /\ UNCHANGED <<cache, own, ret, pend>>
  /\ UNCHANGED <<execVars, guardVars, textVars>>

\* The caller mutates its own result object (pushes an issue onto it).
MutateOwn ==
  /\ own.n = 0
  /\ own' = [own EXCEPT !.n = 1]
  /\ UNCHANGED <<clock, cache, ret, pend>>
  /\ UNCHANGED <<execVars, guardVars, textVars>>

\* The caller mutates an object that get() returned to it.
MutateReturned(i) ==
  /\ i \in 1..Len(cache)
  /\ cache[i].held
  /\ cache[i].ref = "copy"
  /\ cache[i].val.n = 0
  /\ cache' = [cache EXCEPT ![i].val.n = 1]
  /\ UNCHANGED <<clock, own, ret, pend>>
  /\ UNCHANGED <<execVars, guardVars, textVars>>

\* set(agent, files, iteration, result) from the return of
\* `await this.getCacheKey(...)` on, with Date.now() as it is then: the size check, evictOldest, the deep
\* copy and this.cache.set(key, {result, timestamp: Date.now()}). The entry
\* also records the request it was stored for.
setResume(req, key) ==
  /\ LET c1 == IF Len(cache) >= maxSize THEN evictOldest(cache, clock) ELSE cache
         copy == deepCopy(own)
     IN cache' = MapSet(c1, key,
                   [key |-> key, req |-> req, timestamp |-> clock,
                    ref |-> copy.ref, val |-> copy.val, held |-> FALSE,
                    stored |-> IF copy.ref = "arg" THEN own ELSE copy.val])
  /\ UNCHANGED <<clock, own, ret>>
  /\ UNCHANGED <<execVars, guardVars, textVars>>

\* A freshness test that lets an entry of age ttl pass.
fresh_inclusive(entry, now) == now - entry.timestamp <= ttl

\* Date.now() - cached.timestamp < this.ttl
fresh(entry, now) == now - entry.timestamp < ttl

\* get(agent, files, iteration) from the return of
\* `await this.getCacheKey(...)` on, with Date.now() as it is then: a fresh entry's result is returned; an
\* expired entry is deleted and null returned. ret records the call: its
\* request, "hit" or "null", whether the key was in the map, and the age of
\* the entry found.
getResume(req, key) ==
  /\ LET i == IndexOfKey(cache, key)
     IN IF i # 0 /\ fresh(cache[i], clock)
          THEN /\ ret' = [status |-> "hit", req |-> req, found |-> TRUE,
                          age |-> clock - cache[i].timestamp]
               /\ cache' = [cache EXCEPT ![i] = getReturn(cache[i])]
          ELSE /\ ret' = [status |-> "null", req |-> req, found |-> (i # 0),
                          age |-> IF i # 0 THEN clock - cache[i].timestamp ELSE 0]
               /\ cache' = IF i # 0 THEN RemoveAt(cache, i) ELSE cache
  /\ UNCHANGED <<clock, own>>
  /\ UNCHANGED <<execVars, guardVars, textVars>>

\* A get()/set() call under way:
\*   op, req   the method and its arguments
\*   stage     the await it is suspended at: "hashFile" (fs.stat inside
\*             hashFile), "readFile" (fs.readFile inside hashFile),
\*             "allSettled" (the file hashes, inside getCacheKey),
\*             "getCacheKey" (the key, inside get/set)
\*   hash, key the file hash and the key, once computed
NewCall(op, req) ==
  [op |-> op, req |-> req, stage |-> "hashFile", hash |-> <<>>, key |-> <<>>]

\* The call p of the bag goes on as q.
Step(p, q) == pend' = (pend (-) SetToBag({p})) (+) SetToBag({q})

\* get()/set() is called: getCacheKey calls hashFile for the files, which
\* suspends at fs.stat. At most `limit` calls are under way.
Call(op, req, limit) ==
  /\ BagCardinality(pend) < limit
  /\ pend' = pend (+) SetToBag({NewCall(op, req)})
  /\ UNCHANGED <<clock, cache, own, ret>>
  /\ UNCHANGED <<execVars, guardVars, textVars>>

\* hashFile resumes from fs.stat. When fs.stat returned and the size is
\* within the limit (stat = "ok"), it calls fs.readFile and suspends again;
\* when fs.stat threw or the file is too large (stat = "throws"), its catch
\* block returns the digest of filePath + Date.now(). A file that can be
\* read can be stat-ed.
HashFile(p, stat) ==
  /\ p \in BagToSet(pend)
  /\ p.stage = "hashFile"
  /\ p.req.file = "readable" => stat = "ok"
  /\ IF stat = "ok"
       THEN Step(p, [p EXCEPT !.stage = "readFile"])
       ELSE Step(p, [p EXCEPT !.stage = "allSettled",
                               !.hash = hashFile(p.req.file, clock)])
  /\ UNCHANGED <<clock, cache, own, ret>>
  /\ UNCHANGED <<execVars, guardVars, textVars>>

\* hashFile resumes from fs.readFile and returns: the digest of the
\* content, or, from its catch block, the digest of filePath + Date.now().
ReadFile(p) ==
  /\ p \in BagToSet(pend)
  /\ p.stage = "readFile"
  /\ Step(p, [p EXCEPT !.stage = "allSettled",
                        !.hash = hashFile(p.req.file, clock)])
  /\ UNCHANGED <<clock, cache, own, ret>>
  /\ UNCHANGED <<execVars, guardVars, textVars>>

\* getCacheKey resumes with the file hashes, reads Date.now() for the
\* bucket and returns the key.
GetCacheKey(p) ==
  /\ p \in BagToSet(pend)
  /\ p.stage = "allSettled"
  /\ Step(p, [p EXCEPT !.stage = "getCacheKey",
                        !.key = getCacheKey(p.req, p.hash, clock)])
  /\ UNCHANGED <<clock, cache, own, ret>>
  /\ UNCHANGED <<execVars, guardVars, textVars>>

\* get()/set() resumes with the key and runs to its end.
Complete(p) ==
  /\ p \in BagToSet(pend)
  /\ p.stage = "getCacheKey"
  /\ IF p.op = "set" THEN setResume(p.req, p.key)
                     ELSE getResume(p.req, p.key)
  /\ pend' = pend (-) SetToBag({p})

\* clear()
Clear ==
  /\ cache # <<>>
  /\ cache' = <<>>
  /\ UNCHANGED <<clock, own, ret, pend>>
  /\ UNCHANGED <<execVars, guardVars, textVars>>

\* The cache under calls for every request made one after the other, as
\* time passes.
CacheNext ==
  \/ Tick
  \/ \E op \in {"set", "get"}, req \in Requests : Call(op, req, 1)
  \/ \E p \in BagToSet(pend), stat \in {"ok", "throws"} : HashFile(p, stat)
  \/ \E p \in BagToSet(pend) : ReadFile(p)
  \/ \E p \in BagToSet(pend) : GetCacheKey(p)
  \/ \E p \in BagToSet(pend) : Complete(p)
  \/ Clear

SpecCache == CacheInit /\ [][CacheNext]_vars

\* The cache under calls for one request, with a caller that mutates the
\* objects it holds.
AliasRequests == {r \in Requests : r.agent = 1 /\ r.file = "readable"}

AliasNext ==
  \/ Tick
  \/ MutateOwn
  \/ \E i \in 1..Len(cache) : MutateReturned(i)
  \/ \E op \in {"set", "get"}, req \in AliasRequests : Call(op, req, 1)
  \/ \E p \in BagToSet(pend), stat \in {"ok", "throws"} : HashFile(p, stat)
  \/ \E p \in BagToSet(pend) : ReadFile(p)
  \/ \E p \in BagToSet(pend) : GetCacheKey(p)
  \/ \E p \in BagToSet(pend) : Complete(p)
  \/ Clear

SpecAlias == CacheInit /\ [][AliasNext]_vars

\* The requests of the calls that overlap: two workers on the same files.
ConcRequests == {r \in Requests : r.file = "readable"}

\* The cache under calls that overlap: up to MaxPending of them are under
\* way at a time, they resume in any order, and the clock may advance in
\* between.
ConcNext ==
  \/ Tick
  \/ \E op \in {"set", "get"}, req \in ConcRequests : Call(op, req, MaxPending)
  \/ \E p \in BagToSet(pend), stat \in {"ok", "throws"} : HashFile(p, stat)
  \/ \E p \in BagToSet(pend) : ReadFile(p)
  \/ \E p \in BagToSet(pend) : GetCacheKey(p)
  \/ \E p \in BagToSet(pend) : Complete(p)
  \/ Clear

SpecConc == CacheInit /\ [][ConcNext]_vars

(***************************************************************************)
(* SecurityUtils.validatePath and executeCommand                           *)
(* A path is a sequence of characters; a character is a string, the NUL   *)
(* byte being written "NUL". path.resolve and path.relative are the POSIX *)
(* ones.                                                                   *)
(***************************************************************************)
Range(f) == {f[i] : i \in DOMAIN f}

HasSub(p, sub) ==
  \E i \in 1..(Len(p) - Len(sub) + 1) : SubSeq(p, i, i + Len(sub) - 1) = sub

StartsWith(p, pre) == Len(p) >= Len(pre) /\ SubSeq(p, 1, Len(pre)) = pre

EndsWith(p, suf) ==
  Len(p) >= Len(suf) /\ SubSeq(p, Len(p) - Len(suf) + 1, Len(p)) = suf

Min(a, b) == IF a < b THEN a ELSE b

UpperCase == <<"A","B","C","D","E","F","G","H","I","J","K","L","M",
               "N","O","P","Q","R","S","T","U","V","W","X","Y","Z">>
LowerCase == <<"a","b","c","d","e","f","g","h","i","j","k","l","m",
               "n","o","p","q","r","s","t","u","v","w","x","y","z">>
Letters == Range(UpperCase) \cup Range(LowerCase)
Digits1to9 == {"1","2","3","4","5","6","7","8","9"}

ToLowerChar(c) ==
  IF c \in Range(UpperCase)
    THEN LowerCase[CHOOSE i \in DOMAIN UpperCase : UpperCase[i] = c]
    ELSE c
ToLower(p) == [i \in DOMAIN p |-> ToLowerChar(p[i])]

\* [\x00-\x1f\x7f-\x9f]: U+0000 is written "NUL" and U+007F "DEL".
ControlChars ==
  {"NUL", "U+0001", "U+0002", "U+0003", "U+0004", "U+0005", "U+0006",
   "U+0007", "U+0008", "\t", "\n", "U+000B", "\f", "\r", "U+000E",
   "U+000F", "U+0010", "U+0011", "U+0012", "U+0013", "U+0014", "U+0015",
   "U+0016", "U+0017", "U+0018", "U+0019", "U+001A", "U+001B", "U+001C",
   "U+001D", "U+001E", "U+001F", "DEL", "U+0080", "U+0081", "U+0082",
   "U+0083", "U+0084", "U+0085", "U+0086", "U+0087", "U+0088", "U+0089",
   "U+008A", "U+008B", "U+008C", "U+008D", "U+008E", "U+008F", "U+0090",
   "U+0091", "U+0092", "U+0093", "U+0094", "U+0095", "U+0096", "U+0097",
   "U+0098", "U+0099", "U+009A", "U+009B", "U+009C", "U+009D", "U+009E",
   "U+009F"}
\* The white space of \s and of String.prototype.trim.
WhiteSpace ==
  {"\t", "\n", "U+000B", "\f", "\r", " ", "U+00A0", "U+1680", "U+2000",
   "U+2001", "U+2002", "U+2003", "U+2004", "U+2005", "U+2006", "U+2007",
   "U+2008", "U+2009", "U+200A", "U+2028", "U+2029", "U+202F", "U+205F",
   "U+3000", "U+FEFF"}

\* String.prototype.trim: the white space at both ends is dropped.
RECURSIVE TrimLeft(_)
TrimLeft(w) == IF w # <<>> /\ w[1] \in WhiteSpace THEN TrimLeft(Tail(w)) ELSE w
RECURSIVE TrimRight(_)
TrimRight(w) ==
  IF w # <<>> /\ w[Len(w)] \in WhiteSpace
    THEN TrimRight(SubSeq(w, 1, Len(w) - 1)) ELSE w
Trim(w) == TrimRight(TrimLeft(w))
\* [<>|*?"]
DangerousChars == {"<", ">", "|", "*", "?", "\""}
\* \.(exe|bat|cmd|scr|com|pif|vbs|js|jar|ps1)$
ExecutableExtensions ==
  { <<"e","x","e">>, <<"b","a","t">>, <<"c","m","d">>, <<"s","c","r">>,
    <<"c","o","m">>, <<"p","i","f">>, <<"v","b","s">>, <<"j","s">>,
    <<"j","a","r">>, <<"p","s","1">> }
\* ^(con|prn|aux|nul|com[1-9]|lpt[1-9])$
ReservedNames ==
  { <<"c","o","n">>, <<"p","r","n">>, <<"a","u","x">>, <<"n","u","l">> }
    \cup { <<"c","o","m",d>> : d \in Digits1to9 }
    \cup { <<"l","p","t",d>> : d \in Digits1to9 }

\* A validatePath without the pattern screen.
dangerousPatterns_none(userPath) == FALSE

\* The dangerousPatterns loop of validatePath: TRUE when some pattern matches.
dangerousPatterns(userPath) ==
  \/ HasSub(userPath, <<".", ".">>)                       \* /\.\./ and /\.{2,}/
  \/ "~" \in Range(userPath)                              \* /~/
  \/ userPath[1] = "/"                                    \* /^\/+/
  \/ /\ Len(userPath) >= 3                                \* /^[a-zA-Z]:\\/
     /\ userPath[1] \in Letters
     /\ userPath[2] = ":"
     /\ userPath[3] = "\\"
  \/ "NUL" \in Range(userPath)                            \* /\0/
  \/ Range(userPath) \cap DangerousChars # {}             \* /[<>|*?"]/
  \/ \E i \in 1..(Len(userPath) - 1) :                    \* /[\/\\]{2,}/
       userPath[i] \in {"/", "\\"} /\ userPath[i + 1] \in {"/", "\\"}
  \/ \E ext \in ExecutableExtensions :
       EndsWith(ToLower(userPath), <<".">> \o ext)
  \/ ToLower(userPath) \in ReservedNames
  \/ Range(userPath) \cap ControlChars # {}               \* control characters

\* The segments of a path, split at "/".
RECURSIVE SplitSegs(_, _, _)
SplitSegs(p, i, cur) ==
  IF i > Len(p) THEN <<cur>>
  ELSE IF p[i] = "/" THEN <<cur>> \o SplitSegs(p, i + 1, <<>>)
  ELSE SplitSegs(p, i + 1, Append(cur, p[i]))

\* Normalisation of a segment list: "" and "." are dropped, ".." removes
\* the segment before it.
RECURSIVE NormSegs(_, _, _)
NormSegs(segs, i, acc) ==
  IF i > Len(segs) THEN acc
  ELSE IF segs[i] \in {<<>>, <<".">>} THEN NormSegs(segs, i + 1, acc)
  ELSE IF segs[i] = <<".", ".">>
    THEN NormSegs(segs, i + 1, IF acc = <<>> THEN acc ELSE SubSeq(acc, 1, Len(acc) - 1))
  ELSE NormSegs(segs, i + 1, Append(acc, segs[i]))

RECURSIVE JoinSegs(_, _)
JoinSegs(segs, i) ==
  IF i > Len(segs) THEN <<>>
  ELSE (IF i > 1 THEN <<"/">> ELSE <<>>) \o segs[i] \o JoinSegs(segs, i + 1)

\* The normalised segments of path.resolve(baseDir, userPath), baseDir absolute.
ResolveSegs(baseDir, userPath) ==
  IF userPath # <<>> /\ userPath[1] = "/"
    THEN NormSegs(SplitSegs(userPath, 1, <<>>), 1, <<>>)
    ELSE NormSegs(SplitSegs(baseDir, 1, <<>>) \o SplitSegs(userPath, 1, <<>>), 1, <<>>)

\* path.resolve(baseDir, userPath)
resolve(baseDir, userPath) == <<"/">> \o JoinSegs(ResolveSegs(baseDir, userPath), 1)

\* path.relative(from, to), both absolute and normalised.
relative(from, to) ==
  LET f == NormSegs(SplitSegs(from, 1, <<>>), 1, <<>>)
      t == NormSegs(SplitSegs(to, 1, <<>>), 1, <<>>)
      common == CHOOSE n \in 0..Len(f) :
                  /\ n <= Len(t)
                  /\ SubSeq(f, 1, n) = SubSeq(t, 1, n)
                  /\ (n = Len(f) \/ n = Len(t) \/ f[n + 1] # t[n + 1])
      ups == [i \in 1..(Len(f) - common) |-> <<".", ".">>]
  IN JoinSegs(ups \o SubSeq(t, common + 1, Len(t)), 1)

\* Windows MAX_PATH, the limit on the resolved length.
MAX_PATH == 260

\* validatePath(userPath, baseDir): [ok |-> FALSE] when it throws, else the
\* resolved path.
validatePath(userPath, baseDir) ==
  IF userPath = <<>> THEN [ok |-> FALSE, path |-> <<>>]
  ELSE IF dangerousPatterns(userPath) THEN [ok |-> FALSE, path |-> <<>>]
  ELSE LET resolved == resolve(baseDir, userPath)
           normalizedBase == resolve(baseDir, <<>>)
           relativePath == relative(normalizedBase, resolved)
       IN IF ~StartsWith(resolved, normalizedBase) THEN [ok |-> FALSE, path |-> <<>>]
          ELSE IF HasSub(relativePath, <<".", ".">>) THEN [ok |-> FALSE, path |-> <<>>]
          ELSE IF Len(resolved) > MAX_PATH THEN [ok |-> FALSE, path |-> <<>>]
          ELSE [ok |-> TRUE, path |-> resolved]

\* Config.ALLOWED_COMMANDS
ALLOWED_COMMANDS == {"git", "mkdir", "claude-code", "claude"}

\* An executeCommand without the allow-list test.
executeCommand_noAllowList(command, processCwd) ==
  IF ~validatePath(processCwd, processCwd).ok THEN "failed" ELSE "spawned"

\* executeCommand(command, args, options) up to its await, with the default
\* cwd option (process.cwd()): the allow-list check, then the options of
\* execFile are built, validatePath(cwd) among them, and only then execFile
\* is called. A throw of validatePath is caught and rethrown sanitized.
\*   "rejected"  the command is not allow-listed
\*   "failed"    the call threw before execFile
\*   "spawned"   execFile was called: a child process runs
executeCommand(command, processCwd) ==
  IF command \notin ALLOWED_COMMANDS THEN "rejected"
  ELSE IF ~validatePath(processCwd, processCwd).ok THEN "failed"
  ELSE "spawned"

(***************************************************************************)
(* Texts: SecurityUtils.sanitizeError and escapeHtml,                      *)
(* AgentSandbox.parseAgentOutput and sanitizeResult                        *)
(* A text is the sequence of its UTF-16 code units, each written as a     *)
(* string: an ASCII character as itself, any other code unit by its       *)
(* number ("U+91CD").                                                      *)
(***************************************************************************)
\* Longest worker output, in lines.
MaxOutputLines == 3
\* `matches.slice(0, 100)`: the cap on the matches of one level, scaled.
MATCH_LIMIT == 2
\* `output.substring(0, 1024 * 1024)`: the size ceiling, scaled.
OUTPUT_LIMIT == 20
\* `issues.slice(0, 1000)`: ten times the cap of one level.
ISSUE_LIMIT == 10 * MATCH_LIMIT
\* .{1,500}
MESSAGE_LIMIT == 500
\* [^\s:]{1,200}
FILE_LIMIT == 200
\* lineNum < 1000000
LINE_LIMIT == 1000000

DigitChars == <<"0", "1", "2", "3", "4", "5", "6", "7", "8", "9">>
\* \d
Digits == Range(DigitChars)
\* \w
WordChars == Letters \cup Digits \cup {"_"}
\* The code units `.` does not match.
LineTerminators == {"\n", "\r", "U+2028", "U+2029"}

\* The index after the longest run, from index i on, of code units in S.
RECURSIVE SkipWhile(_, _, _)
SkipWhile(t, i, S) ==
  IF i <= Len(t) /\ t[i] \in S THEN SkipWhile(t, i + 1, S) ELSE i

\* The index after the longest run, from index i on, of code units not in S.
RECURSIVE SkipUntil(_, _, _)
SkipUntil(t, i, S) ==
  IF i <= Len(t) /\ t[i] \notin S THEN SkipUntil(t, i + 1, S) ELSE i

\* The literal lit stands at index i of t; LitAtI under the `i` flag (lit
\* is in lower case).
LitAt(t, i, lit) ==
  i + Len(lit) - 1 <= Len(t) /\ SubSeq(t, i, i + Len(lit) - 1) = lit
LitAtI(t, i, lit) ==
  i + Len(lit) - 1 <= Len(t) /\ ToLower(SubSeq(t, i, i + Len(lit) - 1)) = lit

Take(s, n) == SubSeq(s, 1, Min(Len(s), n))

\* The replacement function of escapeHtml.
EscapeChar(c) ==
  CASE c = "&" -> <<"&", "a", "m", "p", ";">>
    [] c = "<" -> <<"&", "l", "t", ";">>
    [] c = ">" -> <<"&", "g", "t", ";">>
    [] c = "\"" -> <<"&", "q", "u", "o", "t", ";">>
    [] c = "'" -> <<"&", "#", "3", "9", ";">>
    [] OTHER -> <<c>>

\* SecurityUtils.escapeHtml: text.replace(/[&<>"']/g, ...).
RECURSIVE escapeHtml(_)
escapeHtml(t) ==
  IF t = <<>> THEN <<>> ELSE EscapeChar(Head(t)) \o escapeHtml(Tail(t))

\* The path patterns of sanitizeError, in the order they are applied:
\* a literal (keys), then one or more code units outside `chars`.
pathPatterns ==
  << [kind |-> "path", keys |-> {<<"/", "h", "o", "m", "e", "/">>}, chars |-> {"/"} \cup WhiteSpace,
      quote |-> FALSE, rep |-> <<"/", "h", "o", "m", "e", "/", "<", "u", "s", "e", "r", ">">>],
     [kind |-> "path", keys |-> {<<"C", ":", "\\", "U", "s", "e", "r", "s", "\\">>}, chars |-> {"\\"},
      quote |-> FALSE, rep |-> <<"C", ":", "\\", "U", "s", "e", "r", "s", "\\", "<", "u", "s", "e", "r", ">">>],
     [kind |-> "path", keys |-> {<<"/", "U", "s", "e", "r", "s", "/">>}, chars |-> {"/"} \cup WhiteSpace,
      quote |-> FALSE, rep |-> <<"/", "U", "s", "e", "r", "s", "/", "<", "u", "s", "e", "r", ">">>],
     [kind |-> "path", keys |-> {<<"\\", "U", "s", "e", "r", "s", "\\">>}, chars |-> {"\\"},
      quote |-> FALSE, rep |-> <<"\\", "U", "s", "e", "r", "s", "\\", "<", "u", "s", "e", "r", ">">>] >>

\* `SENSITIVE_INFO_${index}_REDACTED`
Redacted(index) ==
  <<"S", "E", "N", "S", "I", "T", "I", "V", "E", "_", "I", "N", "F", "O", "_">> \o <<DigitChars[index + 1]>> \o <<"_", "R", "E", "D", "A", "C", "T", "E", "D">>

\* sensitivePatterns, in the order of the array: a keyword under the `i`
\* flag (keys), then [:\s]* (for bearer [\s]*) as `chars`, then ['"]? where
\* `quote` holds, then [\w\-]+.
sensitivePatterns ==
  << [kind |-> "sensitive", keys |-> {<<"a", "p", "i", "k", "e", "y">>, <<"a", "p", "i", "_", "k", "e", "y">>, <<"a", "p", "i", "-", "k", "e", "y">>},
      chars |-> {":"} \cup WhiteSpace, quote |-> TRUE, rep |-> Redacted(0)],
     [kind |-> "sensitive", keys |-> {<<"p", "a", "s", "s", "w", "o", "r", "d">>},
      chars |-> {":"} \cup WhiteSpace, quote |-> TRUE, rep |-> Redacted(1)],
     [kind |-> "sensitive", keys |-> {<<"t", "o", "k", "e", "n">>},
      chars |-> {":"} \cup WhiteSpace, quote |-> TRUE, rep |-> Redacted(2)],
     [kind |-> "sensitive", keys |-> {<<"s", "e", "c", "r", "e", "t">>},
      chars |-> {":"} \cup WhiteSpace, quote |-> TRUE, rep |-> Redacted(3)],
     [kind |-> "sensitive", keys |-> {<<"a", "u", "t", "h">>},
      chars |-> {":"} \cup WhiteSpace, quote |-> TRUE, rep |-> Redacted(4)],
     [kind |-> "sensitive", keys |-> {<<"b", "e", "a", "r", "e", "r">>},
      chars |-> WhiteSpace, quote |-> FALSE, rep |-> Redacted(5)] >>

\* The match of pattern p that starts at index i of t: the index after its
\* last code unit, 0 when there is none. The parts of a pattern draw on
\* disjoint sets of code units, so the longest run of each is the match.
MatchEnd(p, t, i) ==
  IF p.kind = "path"
    THEN IF \E k \in p.keys : LitAt(t, i, k)
           THEN LET a == i + Len(CHOOSE k \in p.keys : LitAt(t, i, k))
                    d == SkipUntil(t, a, p.chars)
                IN IF d > a THEN d ELSE 0
           ELSE 0
    ELSE IF \E k \in p.keys : LitAtI(t, i, k)
           THEN LET a == i + Len(CHOOSE k \in p.keys : LitAtI(t, i, k))
                    b == SkipWhile(t, a, p.chars)
                    c == IF p.quote /\ b <= Len(t) /\ t[b] \in {"'", "\""}
                           THEN b + 1 ELSE b
                    d == SkipWhile(t, c, WordChars \cup {"-"})
                IN IF d > c THEN d ELSE 0
           ELSE 0

\* String.prototype.replace with a /g pattern, from index i on: the matches
\* are taken from left to right and do not overlap.
RECURSIVE replaceAll(_, _, _)
replaceAll(p, t, i) ==
  IF i > Len(t) THEN <<>>
  ELSE LET e == MatchEnd(p, t, i)
       IN IF e # 0 THEN p.rep \o replaceAll(p, t, e)
          ELSE <<t[i]>> \o replaceAll(p, t, i + 1)

\* The patterns pats[k], pats[k+1], ... applied one after the other.
RECURSIVE ReplaceEach(_, _, _)
ReplaceEach(pats, k, t) ==
  IF k > Len(pats) THEN t
  ELSE ReplaceEach(pats, k + 1, replaceAll(pats[k], t, 1))

\* error.message || String(error) for error = new Error(message): an empty
\* message is falsy, and String(error) is then the name of the error.
errorMessage(message) ==
  IF message = <<>> THEN <<"E", "r", "r", "o", "r">> ELSE message

\* SecurityUtils.sanitizeError(error), as the message of what it returns
\* for an error whose message is `message`.
sanitizeError(message) ==
  ReplaceEach(sensitivePatterns, 1,
              ReplaceEach(pathPatterns, 1, errorMessage(message)))

\* Object.entries(patterns): the levels, in the order they are scanned.
Levels == <<"critical", "error", "warning", "info", "suggestion">>

\* The markers of a level: (?:CRITICAL|U+91CD U+5927|U+1F534) and so on.
patterns(level) ==
  CASE level = "critical" -> {<<"C", "R", "I", "T", "I", "C", "A", "L">>, <<"U+91CD", "U+5927">>, <<"U+D83D", "U+DD34">>}
    [] level = "error" -> {<<"E", "R", "R", "O", "R">>, <<"U+30A8", "U+30E9", "U+30FC">>, <<"U+D83D", "U+DD34">>}
    [] level = "warning" -> {<<"W", "A", "R", "N", "I", "N", "G">>, <<"U+8B66", "U+544A">>, <<"U+D83D", "U+DFE1">>}
    [] level = "info" -> {<<"I", "N", "F", "O">>, <<"U+60C5", "U+5831">>, <<"U+D83D", "U+DD35">>}
    [] level = "suggestion" -> {<<"S", "U", "G", "G", "E", "S", "T", "I", "O", "N">>, <<"U+63D0", "U+6848">>, <<"U+D83D", "U+DCA1">>}

\* The index after a marker of the level and its colon at index i; 0 when
\* no marker stands there.
MarkerEnd(level, t, i) ==
  IF \E m \in patterns(level) : LitAt(t, i, Append(m, ":"))
    THEN i + 1 + Len(CHOOSE m \in patterns(level) : LitAt(t, i, Append(m, ":")))
    ELSE 0

\* (.{1,500}?)(?:\n|$) from index s: the index after the message, 0 when
\* this part of the pattern does not match at s.
MessageEnd(t, s) ==
  LET e == SkipUntil(t, s, LineTerminators)
  IN IF e > s /\ e - s <= MESSAGE_LIMIT /\ (e > Len(t) \/ t[e] = "\n")
       THEN e ELSE 0

\* The match of a level's pattern that starts at index i: \s* takes the
\* longest run of white space that lets the rest match.
MatchAt(level, t, i) ==
  LET p == MarkerEnd(level, t, i)
      q == SkipWhile(t, p, WhiteSpace)
      starts == {s \in p..q : MessageEnd(t, s) # 0}
  IN IF p = 0 \/ starts = {} THEN [found |-> FALSE, from |-> 0, to |-> 0]
     ELSE LET s == CHOOSE s \in starts : \A r \in starts : r <= s
          IN [found |-> TRUE, from |-> s, to |-> MessageEnd(t, s)]

\* [...output.matchAll(pattern)], from index i on: the captured group of
\* every match, from left to right. A match takes the line feed after it.
RECURSIVE matchAll(_, _, _)
matchAll(level, t, i) ==
  IF i > Len(t) THEN <<>>
  ELSE LET m == MatchAt(level, t, i)
       IN IF m.found
            THEN <<SubSeq(t, m.from, m.to - 1)>>
                   \o matchAll(level, t, IF m.to <= Len(t) THEN m.to + 1 ELSE m.to)
            ELSE matchAll(level, t, i + 1)

\* A parser that keeps every match of a level.
limitedMatches_all(matches) == matches

\* matches.slice(0, 100)
limitedMatches(matches) == Take(matches, MATCH_LIMIT)

\* The match of /(?:in|at|U+30D5 U+30A1 U+30A4 U+30EB:?)\s*([^\s:]{1,200})(?::(\d+))?/
\* that starts at index i: the captured file and the captured digits.
FileMatchAt(t, i) ==
  LET kws == {<<"i", "n">>, <<"a", "t">>, <<"U+30D5", "U+30A1", "U+30A4", "U+30EB">>}
      NoMatch == [found |-> FALSE, file |-> <<>>, digits |-> <<>>]
  IN IF \A k \in kws : ~LitAt(t, i, k) THEN NoMatch
     ELSE LET k == CHOOSE k \in kws : LitAt(t, i, k)
              a0 == i + Len(k)
              a == IF k = <<"U+30D5", "U+30A1", "U+30A4", "U+30EB">> /\ a0 <= Len(t) /\ t[a0] = ":"
                     THEN a0 + 1 ELSE a0
              b == SkipWhile(t, a, WhiteSpace)
              c == Min(SkipUntil(t, b, WhiteSpace \cup {":"}), b + FILE_LIMIT)
              d == IF c <= Len(t) /\ t[c] = ":"
                     THEN SkipWhile(t, c + 1, Digits) ELSE c
          IN IF c = b THEN NoMatch
             ELSE [found |-> TRUE, file |-> SubSeq(t, b, c - 1),
                   digits |-> IF d > c + 1 THEN SubSeq(t, c + 1, d - 1) ELSE <<>>]

\* issue.message.match(...): the leftmost match.
fileMatch(t) ==
  LET at == {i \in 1..Len(t) : FileMatchAt(t, i).found}
  IN IF at = {} THEN [found |-> FALSE, file |-> <<>>, digits |-> <<>>]
     ELSE FileMatchAt(t, CHOOSE i \in at : \A r \in at : i <= r)

\* parseInt on a run of digits; NaN (no digits) is written 0.
RECURSIVE parseInt(_)
parseInt(ds) ==
  IF ds = <<>> THEN 0
  ELSE 10 * parseInt(SubSeq(ds, 1, Len(ds) - 1))
         + (CHOOSE n \in 0..9 : DigitChars[n + 1] = ds[Len(ds)])

\* issue.line: lineNum when 0 < lineNum < 1000000, else null, written 0.
lineOf(ds) ==
  LET lineNum == parseInt(ds)
  IN IF lineNum > 0 /\ lineNum < LINE_LIMIT THEN lineNum ELSE 0

(***************************************************************************)
(* String.prototype.toLowerCase                                            *)
(* A code unit is a string: a printable ASCII character is written as      *)
(* itself, U+0000 "NUL", U+007F "DEL", the tab, line feed, form feed and   *)
(* carriage return by their escapes, every other unit "U+" and its four    *)
(* hexadecimal digits (the grave accent, which a string cannot hold, is    *)
(* "U+0060").                                                              *)
(***************************************************************************)
HexDigits ==
  <<"0", "1", "2", "3", "4", "5", "6", "7", "8", "9", "A", "B", "C", "D", "E", "F">>

\* U+0020 to U+007E, in order.
Printable ==
  <<" ", "!", "\"", "#", "$", "%", "&", "'", "(", ")", "*", "+", ",", "-", ".", "/",
    "0", "1", "2", "3", "4", "5", "6", "7", "8", "9", ":", ";", "<", "=", ">", "?",
    "@", "A", "B", "C", "D", "E", "F", "G", "H", "I", "J", "K", "L", "M", "N", "O",
    "P", "Q", "R", "S", "T", "U", "V", "W", "X", "Y", "Z", "[", "\\", "]", "^", "_",
    "U+0060", "a", "b", "c", "d", "e", "f", "g", "h", "i", "j", "k", "l", "m", "n", "o",
    "p", "q", "r", "s", "t", "u", "v", "w", "x", "y", "z", "{", "|", "}", "~">>

NamedUnits ==
  {<<"NUL", 0>>, <<"\t", 9>>, <<"\n", 10>>, <<"\f", 12>>, <<"\r", 13>>, <<"DEL", 127>>}

\* The value of a code unit.
CodeOf(c) ==
  LET hex(k) == (CHOOSE d \in 1..16 : HexDigits[d] = SubSeq(c, k, k)) - 1
  IN IF Len(c) = 6
       THEN 4096 * hex(3) + 256 * hex(4) + 16 * hex(5) + hex(6)
     ELSE IF \E p \in NamedUnits : p[1] = c
       THEN (CHOOSE p \in NamedUnits : p[1] = c)[2]
     ELSE 31 + CHOOSE k \in 1..Len(Printable) : Printable[k] = c

\* The code unit of a value.
UnitOf(n) ==
  IF \E p \in NamedUnits : p[2] = n THEN (CHOOSE p \in NamedUnits : p[2] = n)[1]
  ELSE IF n >= 32 /\ n <= 126 THEN Printable[n - 31]
  ELSE "U+" \o HexDigits[(n \div 4096) + 1] \o HexDigits[((n \div 256) % 16) + 1]
            \o HexDigits[((n \div 16) % 16) + 1] \o HexDigits[(n % 16) + 1]

\* The code point whose first unit is w[i]: a high surrogate followed by a
\* low one is one code point, any other unit is one by itself.
CodePointAt(w, i) ==
  LET a == CodeOf(w[i])
  IN IF a >= \hD800 /\ a <= \hDBFF /\ i < Len(w)
       THEN LET b == CodeOf(w[i + 1])
            IN IF b >= \hDC00 /\ b <= \hDFFF
                 THEN \h10000 + (a - \hD800) * 1024 + (b - \hDC00)
                 ELSE a
       ELSE a

\* The code point whose last unit is w[i].
CodePointBefore(w, i) ==
  LET b == CodeOf(w[i])
  IN IF b >= \hDC00 /\ b <= \hDFFF /\ i > 1
       THEN LET a == CodeOf(w[i - 1])
            IN IF a >= \hD800 /\ a <= \hDBFF
                 THEN \h10000 + (a - \hD800) * 1024 + (b - \hDC00)
                 ELSE b
       ELSE b

\* The units of a code point.
UnitsOf(cp) ==
  IF cp < \h10000 THEN <<UnitOf(cp)>>
  ELSE <<UnitOf(\hD800 + ((cp - \h10000) \div 1024)),
         UnitOf(\hDC00 + ((cp - \h10000) % 1024))>>

\* The simple lower case mappings of the Unicode Character Database, up to
\* the case pairs Unicode 16 and 17 added, as <<first, last, step, offset>>:
\* the code points first, first + step, ... up to last map to themselves
\* plus offset.
LowerCaseRanges ==
  { <<\h0041, \h005A, 1, 32>>, <<\h00C0, \h00D6, 1, 32>>, <<\h00D8, \h00DE, 1, 32>>,
   <<\h0100, \h012E, 2, 1>>, <<\h0132, \h0136, 2, 1>>, <<\h0139, \h0147, 2, 1>>,
   <<\h014A, \h0176, 2, 1>>, <<\h0178, \h0178, 1, -121>>, <<\h0179, \h017D, 2, 1>>,
   <<\h0181, \h0181, 1, 210>>, <<\h0182, \h0184, 2, 1>>, <<\h0186, \h0186, 1, 206>>,
   <<\h0187, \h0187, 1, 1>>, <<\h0189, \h018A, 1, 205>>, <<\h018B, \h018B, 1, 1>>,
   <<\h018E, \h018E, 1, 79>>, <<\h018F, \h018F, 1, 202>>, <<\h0190, \h0190, 1, 203>>,
   <<\h0191, \h0191, 1, 1>>, <<\h0193, \h0193, 1, 205>>, <<\h0194, \h0194, 1, 207>>,
   <<\h0196, \h0196, 1, 211>>, <<\h0197, \h0197, 1, 209>>, <<\h0198, \h0198, 1, 1>>,
   <<\h019C, \h019C, 1, 211>>, <<\h019D, \h019D, 1, 213>>, <<\h019F, \h019F, 1, 214>>,
   <<\h01A0, \h01A4, 2, 1>>, <<\h01A6, \h01A6, 1, 218>>, <<\h01A7, \h01A7, 1, 1>>,
   <<\h01A9, \h01A9, 1, 218>>, <<\h01AC, \h01AC, 1, 1>>, <<\h01AE, \h01AE, 1, 218>>,
   <<\h01AF, \h01AF, 1, 1>>, <<\h01B1, \h01B2, 1, 217>>, <<\h01B3, \h01B5, 2, 1>>,
   <<\h01B7, \h01B7, 1, 219>>, <<\h01B8, \h01B8, 1, 1>>, <<\h01BC, \h01BC, 1, 1>>,
   <<\h01C4, \h01C4, 1, 2>>, <<\h01C5, \h01C5, 1, 1>>, <<\h01C7, \h01C7, 1, 2>>,
   <<\h01C8, \h01C8, 1, 1>>, <<\h01CA, \h01CA, 1, 2>>, <<\h01CB, \h01DB, 2, 1>>,
   <<\h01DE, \h01EE, 2, 1>>, <<\h01F1, \h01F1, 1, 2>>, <<\h01F2, \h01F4, 2, 1>>,
   <<\h01F6, \h01F6, 1, -97>>, <<\h01F7, \h01F7, 1, -56>>, <<\h01F8, \h021E, 2, 1>>,
   <<\h0220, \h0220, 1, -130>>, <<\h0222, \h0232, 2, 1>>, <<\h023A, \h023A, 1, 10795>>,
   <<\h023B, \h023B, 1, 1>>, <<\h023D, \h023D, 1, -163>>, <<\h023E, \h023E, 1, 10792>>,
   <<\h0241, \h0241, 1, 1>>, <<\h0243, \h0243, 1, -195>>, <<\h0244, \h0244, 1, 69>>,
   <<\h0245, \h0245, 1, 71>>, <<\h0246, \h024E, 2, 1>>, <<\h0370, \h0372, 2, 1>>,
   <<\h0376, \h0376, 1, 1>>, <<\h037F, \h037F, 1, 116>>, <<\h0386, \h0386, 1, 38>>,
   <<\h0388, \h038A, 1, 37>>, <<\h038C, \h038C, 1, 64>>, <<\h038E, \h038F, 1, 63>>,
   <<\h0391, \h03A1, 1, 32>>, <<\h03A4, \h03AB, 1, 32>>, <<\h03CF, \h03CF, 1, 8>>,
   <<\h03D8, \h03EE, 2, 1>>, <<\h03F4, \h03F4, 1, -60>>, <<\h03F7, \h03F7, 1, 1>>,
   <<\h03F9, \h03F9, 1, -7>>, <<\h03FA, \h03FA, 1, 1>>, <<\h03FD, \h03FF, 1, -130>>,
   <<\h0400, \h040F, 1, 80>>, <<\h0410, \h042F, 1, 32>>, <<\h0460, \h0480, 2, 1>>,
   <<\h048A, \h04BE, 2, 1>>, <<\h04C0, \h04C0, 1, 15>>, <<\h04C1, \h04CD, 2, 1>>,
   <<\h04D0, \h052E, 2, 1>>, <<\h0531, \h0556, 1, 48>>, <<\h10A0, \h10C5, 1, 7264>>,
   <<\h10C7, \h10C7, 1, 7264>>, <<\h10CD, \h10CD, 1, 7264>>, <<\h13A0, \h13EF, 1, 38864>>,
   <<\h13F0, \h13F5, 1, 8>>, <<\h1C89, \h1C89, 1, 1>>, <<\h1C90, \h1CBA, 1, -3008>>,
   <<\h1CBD, \h1CBF, 1, -3008>>, <<\h1E00, \h1E94, 2, 1>>, <<\h1E9E, \h1E9E, 1, -7615>>,
   <<\h1EA0, \h1EFE, 2, 1>>, <<\h1F08, \h1F0F, 1, -8>>, <<\h1F18, \h1F1D, 1, -8>>,
   <<\h1F28, \h1F2F, 1, -8>>, <<\h1F38, \h1F3F, 1, -8>>, <<\h1F48, \h1F4D, 1, -8>>,
   <<\h1F59, \h1F5F, 2, -8>>, <<\h1F68, \h1F6F, 1, -8>>, <<\h1F88, \h1F8F, 1, -8>>,
   <<\h1F98, \h1F9F, 1, -8>>, <<\h1FA8, \h1FAF, 1, -8>>, <<\h1FB8, \h1FB9, 1, -8>>,
   <<\h1FBA, \h1FBB, 1, -74>>, <<\h1FBC, \h1FBC, 1, -9>>, <<\h1FC8, \h1FCB, 1, -86>>,
   <<\h1FCC, \h1FCC, 1, -9>>, <<\h1FD8, \h1FD9, 1, -8>>, <<\h1FDA, \h1FDB, 1, -100>>,
   <<\h1FE8, \h1FE9, 1, -8>>, <<\h1FEA, \h1FEB, 1, -112>>, <<\h1FEC, \h1FEC, 1, -7>>,
   <<\h1FF8, \h1FF9, 1, -128>>, <<\h1FFA, \h1FFB, 1, -126>>, <<\h1FFC, \h1FFC, 1, -9>>,
   <<\h2126, \h2126, 1, -7517>>, <<\h212A, \h212A, 1, -8383>>, <<\h212B, \h212B, 1, -8262>>,
   <<\h2132, \h2132, 1, 28>>, <<\h2160, \h216F, 1, 16>>, <<\h2183, \h2183, 1, 1>>,
   <<\h24B6, \h24CF, 1, 26>>, <<\h2C00, \h2C2F, 1, 48>>, <<\h2C60, \h2C60, 1, 1>>,
   <<\h2C62, \h2C62, 1, -10743>>, <<\h2C63, \h2C63, 1, -3814>>, <<\h2C64, \h2C64, 1, -10727>>,
   <<\h2C67, \h2C6B, 2, 1>>, <<\h2C6D, \h2C6D, 1, -10780>>, <<\h2C6E, \h2C6E, 1, -10749>>,
   <<\h2C6F, \h2C6F, 1, -10783>>, <<\h2C70, \h2C70, 1, -10782>>, <<\h2C72, \h2C72, 1, 1>>,
   <<\h2C75, \h2C75, 1, 1>>, <<\h2C7E, \h2C7F, 1, -10815>>, <<\h2C80, \h2CE2, 2, 1>>,
   <<\h2CEB, \h2CED, 2, 1>>, <<\h2CF2, \h2CF2, 1, 1>>, <<\hA640, \hA66C, 2, 1>>,
   <<\hA680, \hA69A, 2, 1>>, <<\hA722, \hA72E, 2, 1>>, <<\hA732, \hA76E, 2, 1>>,
   <<\hA779, \hA77B, 2, 1>>, <<\hA77D, \hA77D, 1, -35332>>, <<\hA77E, \hA786, 2, 1>>,
   <<\hA78B, \hA78B, 1, 1>>, <<\hA78D, \hA78D, 1, -42280>>, <<\hA790, \hA792, 2, 1>>,
   <<\hA796, \hA7A8, 2, 1>>, <<\hA7AA, \hA7AA, 1, -42308>>, <<\hA7AB, \hA7AB, 1, -42319>>,
   <<\hA7AC, \hA7AC, 1, -42315>>, <<\hA7AD, \hA7AD, 1, -42305>>, <<\hA7AE, \hA7AE, 1, -42308>>,
   <<\hA7B0, \hA7B0, 1, -42258>>, <<\hA7B1, \hA7B1, 1, -42282>>, <<\hA7B2, \hA7B2, 1, -42261>>,
   <<\hA7B3, \hA7B3, 1, 928>>, <<\hA7B4, \hA7C2, 2, 1>>, <<\hA7C4, \hA7C4, 1, -48>>,
   <<\hA7C5, \hA7C5, 1, -42307>>, <<\hA7C6, \hA7C6, 1, -35384>>, <<\hA7C7, \hA7C9, 2, 1>>,
   <<\hA7CB, \hA7CB, 1, -42343>>, <<\hA7CC, \hA7DA, 2, 1>>, <<\hA7DC, \hA7DC, 1, -42561>>,
   <<\hA7F5, \hA7F5, 1, 1>>, <<\hFF21, \hFF3A, 1, 32>>, <<\h10400, \h10427, 1, 40>>,
   <<\h104B0, \h104D3, 1, 40>>, <<\h10570, \h1057A, 1, 39>>, <<\h1057C, \h1058A, 1, 39>>,
   <<\h1058C, \h10592, 1, 39>>, <<\h10594, \h10595, 1, 39>>, <<\h10C80, \h10CB2, 1, 64>>,
   <<\h10D50, \h10D65, 1, 32>>, <<\h118A0, \h118BF, 1, 32>>, <<\h16E40, \h16E5F, 1, 32>>,
   <<\h16EA0, \h16EB8, 1, 27>>, <<\h1E900, \h1E921, 1, 34>> }

\* The cased letters that are not case-ignorable, as <<first, last>>.
CasedRanges ==
  { <<\h0041, \h005A>>, <<\h0061, \h007A>>, <<\h00AA, \h00AA>>, <<\h00B5, \h00B5>>,
   <<\h00BA, \h00BA>>, <<\h00C0, \h00D6>>, <<\h00D8, \h00F6>>, <<\h00F8, \h01BA>>,
   <<\h01BC, \h01BF>>, <<\h01C4, \h0293>>, <<\h0296, \h02AF>>, <<\h0370, \h0373>>,
   <<\h0376, \h0377>>, <<\h037B, \h037D>>, <<\h037F, \h037F>>, <<\h0386, \h0386>>,
   <<\h0388, \h038A>>, <<\h038C, \h038C>>, <<\h038E, \h03A1>>, <<\h03A3, \h03F5>>,
   <<\h03F7, \h0481>>, <<\h048A, \h052F>>, <<\h0531, \h0556>>, <<\h0560, \h0588>>,
   <<\h10A0, \h10C5>>, <<\h10C7, \h10C7>>, <<\h10CD, \h10CD>>, <<\h10D0, \h10FA>>,
   <<\h10FD, \h10FF>>, <<\h13A0, \h13F5>>, <<\h13F8, \h13FD>>, <<\h1C80, \h1C8A>>,
   <<\h1C90, \h1CBA>>, <<\h1CBD, \h1CBF>>, <<\h1D00, \h1D2B>>, <<\h1D6B, \h1D77>>,
   <<\h1D79, \h1D9A>>, <<\h1E00, \h1F15>>, <<\h1F18, \h1F1D>>, <<\h1F20, \h1F45>>,
   <<\h1F48, \h1F4D>>, <<\h1F50, \h1F57>>, <<\h1F59, \h1F59>>, <<\h1F5B, \h1F5B>>,
   <<\h1F5D, \h1F5D>>, <<\h1F5F, \h1F7D>>, <<\h1F80, \h1FB4>>, <<\h1FB6, \h1FBC>>,
   <<\h1FBE, \h1FBE>>, <<\h1FC2, \h1FC4>>, <<\h1FC6, \h1FCC>>, <<\h1FD0, \h1FD3>>,
   <<\h1FD6, \h1FDB>>, <<\h1FE0, \h1FEC>>, <<\h1FF2, \h1FF4>>, <<\h1FF6, \h1FFC>>,
   <<\h2102, \h2102>>, <<\h2107, \h2107>>, <<\h210A, \h2113>>, <<\h2115, \h2115>>,
   <<\h2119, \h211D>>, <<\h2124, \h2124>>, <<\h2126, \h2126>>, <<\h2128, \h2128>>,
   <<\h212A, \h212D>>, <<\h212F, \h2134>>, <<\h2139, \h2139>>, <<\h213C, \h213F>>,
   <<\h2145, \h2149>>, <<\h214E, \h214E>>, <<\h2160, \h217F>>, <<\h2183, \h2184>>,
   <<\h24B6, \h24E9>>, <<\h2C00, \h2C7B>>, <<\h2C7E, \h2CE4>>, <<\h2CEB, \h2CEE>>,
   <<\h2CF2, \h2CF3>>, <<\h2D00, \h2D25>>, <<\h2D27, \h2D27>>, <<\h2D2D, \h2D2D>>,
   <<\hA640, \hA66D>>, <<\hA680, \hA69B>>, <<\hA722, \hA76F>>, <<\hA771, \hA787>>,
   <<\hA78B, \hA78E>>, <<\hA790, \hA7DC>>, <<\hA7F5, \hA7F6>>, <<\hA7FA, \hA7FA>>,
   <<\hAB30, \hAB5A>>, <<\hAB60, \hAB68>>, <<\hAB70, \hABBF>>, <<\hFB00, \hFB06>>,
   <<\hFB13, \hFB17>>, <<\hFF21, \hFF3A>>, <<\hFF41, \hFF5A>>, <<\h10400, \h1044F>>,
   <<\h104B0, \h104D3>>, <<\h104D8, \h104FB>>, <<\h10570, \h1057A>>, <<\h1057C, \h1058A>>,
   <<\h1058C, \h10592>>, <<\h10594, \h10595>>, <<\h10597, \h105A1>>, <<\h105A3, \h105B1>>,
   <<\h105B3, \h105B9>>, <<\h105BB, \h105BC>>, <<\h10C80, \h10CB2>>, <<\h10CC0, \h10CF2>>,
   <<\h10D50, \h10D65>>, <<\h10D70, \h10D85>>, <<\h118A0, \h118DF>>, <<\h16E40, \h16E7F>>,
   <<\h16EA0, \h16EB8>>, <<\h16EBB, \h16ED3>>, <<\h1D400, \h1D454>>, <<\h1D456, \h1D49C>>,
   <<\h1D49E, \h1D49F>>, <<\h1D4A2, \h1D4A2>>, <<\h1D4A5, \h1D4A6>>, <<\h1D4A9, \h1D4AC>>,
   <<\h1D4AE, \h1D4B9>>, <<\h1D4BB, \h1D4BB>>, <<\h1D4BD, \h1D4C3>>, <<\h1D4C5, \h1D505>>,
   <<\h1D507, \h1D50A>>, <<\h1D50D, \h1D514>>, <<\h1D516, \h1D51C>>, <<\h1D51E, \h1D539>>,
   <<\h1D53B, \h1D53E>>, <<\h1D540, \h1D544>>, <<\h1D546, \h1D546>>, <<\h1D54A, \h1D550>>,
   <<\h1D552, \h1D6A5>>, <<\h1D6A8, \h1D6C0>>, <<\h1D6C2, \h1D6DA>>, <<\h1D6DC, \h1D6FA>>,
   <<\h1D6FC, \h1D714>>, <<\h1D716, \h1D734>>, <<\h1D736, \h1D74E>>, <<\h1D750, \h1D76E>>,
   <<\h1D770, \h1D788>>, <<\h1D78A, \h1D7A8>>, <<\h1D7AA, \h1D7C2>>, <<\h1D7C4, \h1D7CB>>,
   <<\h1DF00, \h1DF09>>, <<\h1DF0B, \h1DF1E>>, <<\h1DF25, \h1DF2A>>, <<\h1E900, \h1E943>>,
   <<\h1F130, \h1F149>>, <<\h1F150, \h1F169>>, <<\h1F170, \h1F189>> }

\* The case-ignorable code points, as <<first, last>>.
CaseIgnorableRanges ==
  { <<\h0027, \h0027>>, <<\h002E, \h002E>>, <<\h003A, \h003A>>, <<\h005E, \h005E>>,
   <<\h0060, \h0060>>, <<\h00A8, \h00A8>>, <<\h00AD, \h00AD>>, <<\h00AF, \h00AF>>,
   <<\h00B4, \h00B4>>, <<\h00B7, \h00B8>>, <<\h02B0, \h036F>>, <<\h0374, \h0375>>,
   <<\h037A, \h037A>>, <<\h0384, \h0385>>, <<\h0387, \h0387>>, <<\h0483, \h0489>>,
   <<\h0559, \h0559>>, <<\h055F, \h055F>>, <<\h0591, \h05BD>>, <<\h05BF, \h05BF>>,
   <<\h05C1, \h05C2>>, <<\h05C4, \h05C5>>, <<\h05C7, \h05C7>>, <<\h05F4, \h05F4>>,
   <<\h0600, \h0605>>, <<\h0610, \h061A>>, <<\h061C, \h061C>>, <<\h0640, \h0640>>,
   <<\h064B, \h065F>>, <<\h0670, \h0670>>, <<\h06D6, \h06DD>>, <<\h06DF, \h06E8>>,
   <<\h06EA, \h06ED>>, <<\h070F, \h070F>>, <<\h0711, \h0711>>, <<\h0730, \h074A>>,
   <<\h07A6, \h07B0>>, <<\h07EB, \h07F5>>, <<\h07FA, \h07FA>>, <<\h07FD, \h07FD>>,
   <<\h0816, \h082D>>, <<\h0859, \h085B>>, <<\h0888, \h0888>>, <<\h0890, \h0891>>,
   <<\h0897, \h089F>>, <<\h08C9, \h0902>>, <<\h093A, \h093A>>, <<\h093C, \h093C>>,
   <<\h0941, \h0948>>, <<\h094D, \h094D>>, <<\h0951, \h0957>>, <<\h0962, \h0963>>,
   <<\h0971, \h0971>>, <<\h0981, \h0981>>, <<\h09BC, \h09BC>>, <<\h09C1, \h09C4>>,
   <<\h09CD, \h09CD>>, <<\h09E2, \h09E3>>, <<\h09FE, \h09FE>>, <<\h0A01, \h0A02>>,
   <<\h0A3C, \h0A3C>>, <<\h0A41, \h0A42>>, <<\h0A47, \h0A48>>, <<\h0A4B, \h0A4D>>,
   <<\h0A51, \h0A51>>, <<\h0A70, \h0A71>>, <<\h0A75, \h0A75>>, <<\h0A81, \h0A82>>,
   <<\h0ABC, \h0ABC>>, <<\h0AC1, \h0AC5>>, <<\h0AC7, \h0AC8>>, <<\h0ACD, \h0ACD>>,
   <<\h0AE2, \h0AE3>>, <<\h0AFA, \h0AFF>>, <<\h0B01, \h0B01>>, <<\h0B3C, \h0B3C>>,
   <<\h0B3F, \h0B3F>>, <<\h0B41, \h0B44>>, <<\h0B4D, \h0B4D>>, <<\h0B55, \h0B56>>,
   <<\h0B62, \h0B63>>, <<\h0B82, \h0B82>>, <<\h0BC0, \h0BC0>>, <<\h0BCD, \h0BCD>>,
   <<\h0C00, \h0C00>>, <<\h0C04, \h0C04>>, <<\h0C3C, \h0C3C>>, <<\h0C3E, \h0C40>>,
   <<\h0C46, \h0C48>>, <<\h0C4A, \h0C4D>>, <<\h0C55, \h0C56>>, <<\h0C62, \h0C63>>,
   <<\h0C81, \h0C81>>, <<\h0CBC, \h0CBC>>, <<\h0CBF, \h0CBF>>, <<\h0CC6, \h0CC6>>,
   <<\h0CCC, \h0CCD>>, <<\h0CE2, \h0CE3>>, <<\h0D00, \h0D01>>, <<\h0D3B, \h0D3C>>,
   <<\h0D41, \h0D44>>, <<\h0D4D, \h0D4D>>, <<\h0D62, \h0D63>>, <<\h0D81, \h0D81>>,
   <<\h0DCA, \h0DCA>>, <<\h0DD2, \h0DD4>>, <<\h0DD6, \h0DD6>>, <<\h0E31, \h0E31>>,
   <<\h0E34, \h0E3A>>, <<\h0E46, \h0E4E>>, <<\h0EB1, \h0EB1>>, <<\h0EB4, \h0EBC>>,
   <<\h0EC6, \h0EC6>>, <<\h0EC8, \h0ECE>>, <<\h0F18, \h0F19>>, <<\h0F35, \h0F35>>,
   <<\h0F37, \h0F37>>, <<\h0F39, \h0F39>>, <<\h0F71, \h0F7E>>, <<\h0F80, \h0F84>>,
   <<\h0F86, \h0F87>>, <<\h0F8D, \h0F97>>, <<\h0F99, \h0FBC>>, <<\h0FC6, \h0FC6>>,
   <<\h102D, \h1030>>, <<\h1032, \h1037>>, <<\h1039, \h103A>>, <<\h103D, \h103E>>,
   <<\h1058, \h1059>>, <<\h105E, \h1060>>, <<\h1071, \h1074>>, <<\h1082, \h1082>>,
   <<\h1085, \h1086>>, <<\h108D, \h108D>>, <<\h109D, \h109D>>, <<\h10FC, \h10FC>>,
   <<\h135D, \h135F>>, <<\h1712, \h1714>>, <<\h1732, \h1733>>, <<\h1752, \h1753>>,
   <<\h1772, \h1773>>, <<\h17B4, \h17B5>>, <<\h17B7, \h17BD>>, <<\h17C6, \h17C6>>,
   <<\h17C9, \h17D3>>, <<\h17D7, \h17D7>>, <<\h17DD, \h17DD>>, <<\h180B, \h180F>>,
   <<\h1843, \h1843>>, <<\h1885, \h1886>>, <<\h18A9, \h18A9>>, <<\h1920, \h1922>>,
   <<\h1927, \h1928>>, <<\h1932, \h1932>>, <<\h1939, \h193B>>, <<\h1A17, \h1A18>>,
   <<\h1A1B, \h1A1B>>, <<\h1A56, \h1A56>>, <<\h1A58, \h1A5E>>, <<\h1A60, \h1A60>>,
   <<\h1A62, \h1A62>>, <<\h1A65, \h1A6C>>, <<\h1A73, \h1A7C>>, <<\h1A7F, \h1A7F>>,
   <<\h1AA7, \h1AA7>>, <<\h1AB0, \h1ADD>>, <<\h1AE0, \h1AEB>>, <<\h1B00, \h1B03>>,
   <<\h1B34, \h1B34>>, <<\h1B36, \h1B3A>>, <<\h1B3C, \h1B3C>>, <<\h1B42, \h1B42>>,
   <<\h1B6B, \h1B73>>, <<\h1B80, \h1B81>>, <<\h1BA2, \h1BA5>>, <<\h1BA8, \h1BA9>>,
   <<\h1BAB, \h1BAD>>, <<\h1BE6, \h1BE6>>, <<\h1BE8, \h1BE9>>, <<\h1BED, \h1BED>>,
   <<\h1BEF, \h1BF1>>, <<\h1C2C, \h1C33>>, <<\h1C36, \h1C37>>, <<\h1C78, \h1C7D>>,
   <<\h1CD0, \h1CD2>>, <<\h1CD4, \h1CE0>>, <<\h1CE2, \h1CE8>>, <<\h1CED, \h1CED>>,
   <<\h1CF4, \h1CF4>>, <<\h1CF8, \h1CF9>>, <<\h1D2C, \h1D6A>>, <<\h1D78, \h1D78>>,
   <<\h1D9B, \h1DFF>>, <<\h1FBD, \h1FBD>>, <<\h1FBF, \h1FC1>>, <<\h1FCD, \h1FCF>>,
   <<\h1FDD, \h1FDF>>, <<\h1FED, \h1FEF>>, <<\h1FFD, \h1FFE>>, <<\h200B, \h200F>>,
   <<\h2018, \h2019>>, <<\h2024, \h2024>>, <<\h2027, \h2027>>, <<\h202A, \h202E>>,
   <<\h2060, \h2064>>, <<\h2066, \h206F>>, <<\h2071, \h2071>>, <<\h207F, \h207F>>,
   <<\h2090, \h209C>>, <<\h20D0, \h20F0>>, <<\h2C7C, \h2C7D>>, <<\h2CEF, \h2CF1>>,
   <<\h2D6F, \h2D6F>>, <<\h2D7F, \h2D7F>>, <<\h2DE0, \h2DFF>>, <<\h2E2F, \h2E2F>>,
   <<\h3005, \h3005>>, <<\h302A, \h302D>>, <<\h3031, \h3035>>, <<\h303B, \h303B>>,
   <<\h3099, \h309E>>, <<\h30FC, \h30FE>>, <<\hA015, \hA015>>, <<\hA4F8, \hA4FD>>,
   <<\hA60C, \hA60C>>, <<\hA66F, \hA672>>, <<\hA674, \hA67D>>, <<\hA67F, \hA67F>>,
   <<\hA69C, \hA69F>>, <<\hA6F0, \hA6F1>>, <<\hA700, \hA721>>, <<\hA770, \hA770>>,
   <<\hA788, \hA78A>>, <<\hA7F1, \hA7F4>>, <<\hA7F8, \hA7F9>>, <<\hA802, \hA802>>,
   <<\hA806, \hA806>>, <<\hA80B, \hA80B>>, <<\hA825, \hA826>>, <<\hA82C, \hA82C>>,
   <<\hA8C4, \hA8C5>>, <<\hA8E0, \hA8F1>>, <<\hA8FF, \hA8FF>>, <<\hA926, \hA92D>>,
   <<\hA947, \hA951>>, <<\hA980, \hA982>>, <<\hA9B3, \hA9B3>>, <<\hA9B6, \hA9B9>>,
   <<\hA9BC, \hA9BD>>, <<\hA9CF, \hA9CF>>, <<\hA9E5, \hA9E6>>, <<\hAA29, \hAA2E>>,
   <<\hAA31, \hAA32>>, <<\hAA35, \hAA36>>, <<\hAA43, \hAA43>>, <<\hAA4C, \hAA4C>>,
   <<\hAA70, \hAA70>>, <<\hAA7C, \hAA7C>>, <<\hAAB0, \hAAB0>>, <<\hAAB2, \hAAB4>>,
   <<\hAAB7, \hAAB8>>, <<\hAABE, \hAABF>>, <<\hAAC1, \hAAC1>>, <<\hAADD, \hAADD>>,
   <<\hAAEC, \hAAED>>, <<\hAAF3, \hAAF4>>, <<\hAAF6, \hAAF6>>, <<\hAB5B, \hAB5F>>,
   <<\hAB69, \hAB6B>>, <<\hABE5, \hABE5>>, <<\hABE8, \hABE8>>, <<\hABED, \hABED>>,
   <<\hFB1E, \hFB1E>>, <<\hFBB2, \hFBC2>>, <<\hFE00, \hFE0F>>, <<\hFE13, \hFE13>>,
   <<\hFE20, \hFE2F>>, <<\hFE52, \hFE52>>, <<\hFE55, \hFE55>>, <<\hFEFF, \hFEFF>>,
   <<\hFF07, \hFF07>>, <<\hFF0E, \hFF0E>>, <<\hFF1A, \hFF1A>>, <<\hFF3E, \hFF3E>>,
   <<\hFF40, \hFF40>>, <<\hFF70, \hFF70>>, <<\hFF9E, \hFF9F>>, <<\hFFE3, \hFFE3>>,
   <<\hFFF9, \hFFFB>>, <<\h101FD, \h101FD>>, <<\h102E0, \h102E0>>, <<\h10376, \h1037A>>,
   <<\h10780, \h10785>>, <<\h10787, \h107B0>>, <<\h107B2, \h107BA>>, <<\h10A01, \h10A03>>,
   <<\h10A05, \h10A06>>, <<\h10A0C, \h10A0F>>, <<\h10A38, \h10A3A>>, <<\h10A3F, \h10A3F>>,
   <<\h10AE5, \h10AE6>>, <<\h10D24, \h10D27>>, <<\h10D4E, \h10D4E>>, <<\h10D69, \h10D6D>>,
   <<\h10D6F, \h10D6F>>, <<\h10EAB, \h10EAC>>, <<\h10EC5, \h10EC5>>, <<\h10EFA, \h10EFF>>,
   <<\h10F46, \h10F50>>, <<\h10F82, \h10F85>>, <<\h11001, \h11001>>, <<\h11038, \h11046>>,
   <<\h11070, \h11070>>, <<\h11073, \h11074>>, <<\h1107F, \h11081>>, <<\h110B3, \h110B6>>,
   <<\h110B9, \h110BA>>, <<\h110BD, \h110BD>>, <<\h110C2, \h110C2>>, <<\h110CD, \h110CD>>,
   <<\h11100, \h11102>>, <<\h11127, \h1112B>>, <<\h1112D, \h11134>>, <<\h11173, \h11173>>,
   <<\h11180, \h11181>>, <<\h111B6, \h111BE>>, <<\h111C9, \h111CC>>, <<\h111CF, \h111CF>>,
   <<\h1122F, \h11231>>, <<\h11234, \h11234>>, <<\h11236, \h11237>>, <<\h1123E, \h1123E>>,
   <<\h11241, \h11241>>, <<\h112DF, \h112DF>>, <<\h112E3, \h112EA>>, <<\h11300, \h11301>>,
   <<\h1133B, \h1133C>>, <<\h11340, \h11340>>, <<\h11366, \h1136C>>, <<\h11370, \h11374>>,
   <<\h113BB, \h113C0>>, <<\h113CE, \h113CE>>, <<\h113D0, \h113D0>>, <<\h113D2, \h113D2>>,
   <<\h113E1, \h113E2>>, <<\h11438, \h1143F>>, <<\h11442, \h11444>>, <<\h11446, \h11446>>,
   <<\h1145E, \h1145E>>, <<\h114B3, \h114B8>>, <<\h114BA, \h114BA>>, <<\h114BF, \h114C0>>,
   <<\h114C2, \h114C3>>, <<\h115B2, \h115B5>>, <<\h115BC, \h115BD>>, <<\h115BF, \h115C0>>,
   <<\h115DC, \h115DD>>, <<\h11633, \h1163A>>, <<\h1163D, \h1163D>>, <<\h1163F, \h11640>>,
   <<\h116AB, \h116AB>>, <<\h116AD, \h116AD>>, <<\h116B0, \h116B5>>, <<\h116B7, \h116B7>>,
   <<\h1171D, \h1171D>>, <<\h1171F, \h1171F>>, <<\h11722, \h11725>>, <<\h11727, \h1172B>>,
   <<\h1182F, \h11837>>, <<\h11839, \h1183A>>, <<\h1193B, \h1193C>>, <<\h1193E, \h1193E>>,
   <<\h11943, \h11943>>, <<\h119D4, \h119D7>>, <<\h119DA, \h119DB>>, <<\h119E0, \h119E0>>,
   <<\h11A01, \h11A0A>>, <<\h11A33, \h11A38>>, <<\h11A3B, \h11A3E>>, <<\h11A47, \h11A47>>,
   <<\h11A51, \h11A56>>, <<\h11A59, \h11A5B>>, <<\h11A8A, \h11A96>>, <<\h11A98, \h11A99>>,
   <<\h11B60, \h11B60>>, <<\h11B62, \h11B64>>, <<\h11B66, \h11B66>>, <<\h11C30, \h11C36>>,
   <<\h11C38, \h11C3D>>, <<\h11C3F, \h11C3F>>, <<\h11C92, \h11CA7>>, <<\h11CAA, \h11CB0>>,
   <<\h11CB2, \h11CB3>>, <<\h11CB5, \h11CB6>>, <<\h11D31, \h11D36>>, <<\h11D3A, \h11D3A>>,
   <<\h11D3C, \h11D3D>>, <<\h11D3F, \h11D45>>, <<\h11D47, \h11D47>>, <<\h11D90, \h11D91>>,
   <<\h11D95, \h11D95>>, <<\h11D97, \h11D97>>, <<\h11DD9, \h11DD9>>, <<\h11EF3, \h11EF4>>,
   <<\h11F00, \h11F01>>, <<\h11F36, \h11F3A>>, <<\h11F40, \h11F40>>, <<\h11F42, \h11F42>>,
   <<\h11F5A, \h11F5A>>, <<\h13430, \h13440>>, <<\h13447, \h13455>>, <<\h1611E, \h16129>>,
   <<\h1612D, \h1612F>>, <<\h16AF0, \h16AF4>>, <<\h16B30, \h16B36>>, <<\h16B40, \h16B43>>,
   <<\h16D40, \h16D42>>, <<\h16D6B, \h16D6C>>, <<\h16F4F, \h16F4F>>, <<\h16F8F, \h16F9F>>,
   <<\h16FE0, \h16FE1>>, <<\h16FE3, \h16FE4>>, <<\h16FF2, \h16FF3>>, <<\h1AFF0, \h1AFF3>>,
   <<\h1AFF5, \h1AFFB>>, <<\h1AFFD, \h1AFFE>>, <<\h1BC9D, \h1BC9E>>, <<\h1BCA0, \h1BCA3>>,
   <<\h1CF00, \h1CF2D>>, <<\h1CF30, \h1CF46>>, <<\h1D167, \h1D169>>, <<\h1D173, \h1D182>>,
   <<\h1D185, \h1D18B>>, <<\h1D1AA, \h1D1AD>>, <<\h1D242, \h1D244>>, <<\h1DA00, \h1DA36>>,
   <<\h1DA3B, \h1DA6C>>, <<\h1DA75, \h1DA75>>, <<\h1DA84, \h1DA84>>, <<\h1DA9B, \h1DA9F>>,
   <<\h1DAA1, \h1DAAF>>, <<\h1E000, \h1E006>>, <<\h1E008, \h1E018>>, <<\h1E01B, \h1E021>>,
   <<\h1E023, \h1E024>>, <<\h1E026, \h1E02A>>, <<\h1E030, \h1E06D>>, <<\h1E08F, \h1E08F>>,
   <<\h1E130, \h1E13D>>, <<\h1E2AE, \h1E2AE>>, <<\h1E2EC, \h1E2EF>>, <<\h1E4EB, \h1E4EF>>,
   <<\h1E5EE, \h1E5EF>>, <<\h1E6E3, \h1E6E3>>, <<\h1E6E6, \h1E6E6>>, <<\h1E6EE, \h1E6EF>>,
   <<\h1E6F5, \h1E6F5>>, <<\h1E6FF, \h1E6FF>>, <<\h1E8D0, \h1E8D6>>, <<\h1E944, \h1E94B>>,
   <<\h1F3FB, \h1F3FF>>, <<\hE0001, \hE0001>>, <<\hE0020, \hE007F>>, <<\hE0100, \hE01EF>> }

Cased(cp) == \E r \in CasedRanges : r[1] <= cp /\ cp <= r[2]
CaseIgnorable(cp) == \E r \in CaseIgnorableRanges : r[1] <= cp /\ cp <= r[2]

\* The condition Final_Sigma of Unicode's SpecialCasing, for the sigma at
\* w[i]: a cased letter comes before it and none after it, the
\* case-ignorable code points in between being skipped.
RECURSIVE CasedBefore(_, _)
CasedBefore(w, i) ==
  IF i < 1 THEN FALSE
  ELSE LET cp == CodePointBefore(w, i)
       IN IF CaseIgnorable(cp)
            THEN CasedBefore(w, i - (IF cp >= \h10000 THEN 2 ELSE 1))
            ELSE Cased(cp)

RECURSIVE CasedAfter(_, _)
CasedAfter(w, i) ==
  IF i > Len(w) THEN FALSE
  ELSE LET cp == CodePointAt(w, i)
       IN IF CaseIgnorable(cp)
            THEN CasedAfter(w, i + (IF cp >= \h10000 THEN 2 ELSE 1))
            ELSE Cased(cp)

FinalSigma(w, i) == CasedBefore(w, i - 1) /\ ~CasedAfter(w, i + 1)

\* The lower case of the code point at w[i]: U+03A3 gives the final or the
\* plain small sigma, U+0130 gives i and U+0307, a code point of
\* LowerCaseRanges its mapping, any other one itself.
LowerAt(w, i) ==
  LET cp == CodePointAt(w, i)
  IN IF cp = \h03A3
       THEN <<UnitOf(IF FinalSigma(w, i) THEN \h03C2 ELSE \h03C3)>>
     ELSE IF cp = \h0130 THEN <<"i", "U+0307">>
     ELSE IF \E r \in LowerCaseRanges :
                r[1] <= cp /\ cp <= r[2] /\ (cp - r[1]) % r[3] = 0
       THEN UnitsOf(cp + (CHOOSE r \in LowerCaseRanges :
                            r[1] <= cp /\ cp <= r[2] /\ (cp - r[1]) % r[3] = 0)[4])
     ELSE IF cp >= \h10000 THEN <<w[i], w[i + 1]>>
     ELSE <<w[i]>>

\* String.prototype.toLowerCase, from the unit w[i] on.
RECURSIVE LowerFrom(_, _)
LowerFrom(w, i) ==
  IF i > Len(w) THEN <<>>
  ELSE LowerAt(w, i)
         \o LowerFrom(w, i + (IF CodePointAt(w, i) >= \h10000 THEN 2 ELSE 1))

toLowerCase(w) == LowerFrom(w, 1)

\* errorType.replace('-', ' '): the first hyphen only.
ReplaceHyphen(w) ==
  IF "-" \in Range(w)
    THEN LET i == CHOOSE i \in DOMAIN w : w[i] = "-" /\ \A j \in 1..(i - 1) : w[j] # "-"
         IN [w EXCEPT ![i] = " "]
    ELSE w

\* issue.type: the first of the worker's first ten errorTypes that the
\* message, in lower case, includes (every message includes the empty
\* one); 'general' when there is none or when it is the empty string.
issueType(message, errorTypes) ==
  LET hits == {k \in 1..Min(Len(errorTypes), 10) :
                 HasSub(toLowerCase(message), ReplaceHyphen(errorTypes[k]))}
      type == IF hits = {} THEN <<>>
              ELSE errorTypes[CHOOSE k \in hits : \A r \in hits : k <= r]
  IN IF type = <<>> THEN <<"g", "e", "n", "e", "r", "a", "l">> ELSE type

\* The issue built for one match. An issue without a file has file <<>>
\* and line 0.
issueOf(level, captured, agent) ==
  LET message == escapeHtml(Trim(captured))
      fm == fileMatch(message)
  IN [level |-> level,
      message |-> message,
      category |-> agent.category,
      priority |-> agent.priority,
      agentId |-> agent.id,
      autoFixAvailable |-> agent.canAutoFix,
      file |-> IF fm.found THEN escapeHtml(fm.file) ELSE <<>>,
      line |-> IF fm.found THEN lineOf(fm.digits) ELSE 0,
      type |-> issueType(message, agent.errorTypes)]

\* output.substring(0, 1024 * 1024) for an output longer than that.
truncate(output) ==
  IF Len(output) > OUTPUT_LIMIT THEN SubSeq(output, 1, OUTPUT_LIMIT) ELSE output

\* The loop over the levels, from Levels[l] on: the level and the captured
\* text of every match that is kept, in the order the issues are pushed.
RECURSIVE captures(_, _)
captures(o, l) ==
  IF l > Len(Levels) THEN <<>>
  ELSE LET ms == limitedMatches(matchAll(Levels[l], o, 1))
       IN [k \in 1..Len(ms) |-> [level |-> Levels[l], text |-> ms[k]]]
            \o captures(o, l + 1)

\* AgentSandbox.parseAgentOutput(output) of the sandbox of `agent`.
parseAgentOutput(output, agent) ==
  IF output = <<>> THEN <<>>
  ELSE LET caps == captures(truncate(output), 1)
           issues == [k \in 1..Len(caps) |->
                        issueOf(caps[k].level, caps[k].text, agent)]
       IN Take(issues, ISSUE_LIMIT)

\* AgentSandbox.sanitizeResult(result); a result without an error has
\* error <<>>.
sanitizeResult(result) ==
  [agentId |-> escapeHtml(result.agentId),
   agentName |-> escapeHtml(result.agentName),
   issues |-> [k \in DOMAIN result.issues |->
                 [result.issues[k] EXCEPT
                    !.message = escapeHtml(@),
                    !.file = IF @ # <<>> THEN escapeHtml(@) ELSE <<>>]],
   rawOutput |-> escapeHtml(result.rawOutput),
   error |-> IF result.error # <<>> THEN escapeHtml(result.error) ELSE <<>>]

\* What execute() returns for a run that was given `stdout` by the worker
\* process: runAgentInSandbox parses it, execute() sanitizes the result.
executeReturn(stdout, agent) ==
  sanitizeResult([agentId |-> agent.id,
                  agentName |-> agent.name,
                  issues |-> parseAgentOutput(stdout, agent),
                  rawOutput |-> stdout,
                  error |-> <<>>])

\* The worker whose output is parsed: an entry of the `agents` array of the
\* configuration.
Worker ==
  [id |-> <<"q", "a">>, name |-> <<"Q", "&", "A">>, category |-> "bug", priority |-> "high",
   canAutoFix |-> TRUE, errorTypes |-> <<<<"d", "a", "t", "a", "-", "e", "x", "p", "o", "s", "u", "r", "e">>, <<"t", "o", "k", "e", "n">>>>]

\* The lines workers print: an optional marker, then one of a few bodies.
LineMarkers == {<<>>, <<"I", "N", "F", "O", ":">>, <<"C", "R", "I", "T", "I", "C", "A", "L", ":">>, <<"U+D83D", "U+DD34", ":">>}
LineBodies == {<<"a">>, <<" ", "i", "n", " ", "/", "h", "o", "m", "e", "/", "u", "&", "b", ":", "7">>, <<"t", "o", "k", "e", "n", ":", "k">>}
OutputLines == {m \o b : m \in LineMarkers, b \in LineBodies}

RECURSIVE JoinLines(_)
JoinLines(ls) ==
  IF ls = <<>> THEN <<>>
  ELSE IF Len(ls) = 1 THEN ls[1]
  ELSE ls[1] \o <<"\n">> \o JoinLines(Tail(ls))

\* The texts: every output of at most MaxOutputLines lines.
Outputs ==
  {JoinLines(ls) : ls \in UNION {[1..n -> OutputLines] : n \in 0..MaxOutputLines}}

TextInit ==
  /\ text \in Outputs
  /\ res = NoRes
  /\ sbx = NoSandbox
  /\ call = NoCall
  /\ agents = <<>>
  /\ cwd = <<>>
  /\ tier = 0
  /\ phase = "returned"
  /\ run = <<>>
  /\ results = <<>>
  /\ elapsed = 0
  /\ spawns = 0
  /\ clock = 0
  /\ cache = <<>>
  /\ own = [n |-> 0, undef |-> FALSE]
  /\ ret = NoGet
  /\ pend = EmptyBag

TextFrame ==
  /\ UNCHANGED text
  /\ UNCHANGED <<cacheVars, execVars, guardVars>>

\* SecurityUtils.sanitizeError(new Error(text)).message
SanitizeError ==
  /\ res' = [NoRes EXCEPT !.op = "sanitizeError", !.out = sanitizeError(text)]
  /\ TextFrame

\* SecurityUtils.escapeHtml(text)
EscapeHtml ==
  /\ res' = [NoRes EXCEPT !.op = "escapeHtml", !.out = escapeHtml(text)]
  /\ TextFrame

\* parseAgentOutput(text) in the sandbox of Worker
ParseAgentOutput ==
  /\ res' = [NoRes EXCEPT !.op = "parseAgentOutput",
                          !.result.issues = parseAgentOutput(text, Worker)]
  /\ TextFrame

\* sanitizeResult(result) in the sandbox of Worker, for the result that
\* holds the issues parsed from text and text as its raw output
SanitizeResult ==
  /\ res' = [NoRes EXCEPT
               !.op = "sanitizeResult",
               !.result = sanitizeResult([agentId |-> Worker.id,
                                          agentName |-> Worker.name,
                                          issues |-> parseAgentOutput(text, Worker),
                                          rawOutput |-> text,
                                          error |-> <<>>])]
  /\ TextFrame

\* The calls keep no state: a behaviour makes one.
TextNext ==
  /\ res = NoRes
  /\ \/ SanitizeError
     \/ EscapeHtml
     \/ ParseAgentOutput
     \/ SanitizeResult

SpecText == TextInit /\ [][TextNext]_vars

(***************************************************************************)
(* AgentSandbox.execute and ParallelExecutor.executeAgents                 *)
(* Time is counted in minutes: Config.AGENT_TIMEOUT (120000 ms) is 2, a    *)
(* worker's configured timeout of 60000 ms is 1.                           *)
(***************************************************************************)
\* Config.AGENT_TIMEOUT, in minutes.
AGENT_TIMEOUT == 2
\* The cap of `Math.min(agents.length, 4)`.
MAX_CONCURRENCY == 4
\* Longest argument list of executeAgents.
MaxAgents == 5

\* getClaudeCommand: the launcher names it tries, in order.
claudeCommands == <<"claude-code", "claude">>

\* The keys of the `groups` object of groupByPriority, in insertion order.
Priorities == <<"critical", "high", "medium", "low">>

\* The worker configurations the argument list is drawn from: a priority
\* (or none: validateConfig accepts a worker without one) and the timeout
\* getAgents gives it (agent.timeout || 120000), in minutes. executeAgents
\* takes any array: the last entry is a worker whose priority is the name
\* of a property every object inherits.
Catalog ==
  { [priority |-> "critical",    timeout |-> 1],
    [priority |-> "high",        timeout |-> 2],
    [priority |-> "low",         timeout |-> 3],
    [priority |-> "unset",       timeout |-> 2],
    [priority |-> "constructor", timeout |-> 2] }

\* Longest argument list that mixes all the configurations.
MaxMixed == 3

\* The configurations of the workers of the longer lists.
LongCatalog == {c \in Catalog : c.priority \in {"critical", "unset"}}

\* The argument lists: every list of at most MaxMixed workers, and the
\* lists of at most MaxAgents workers of two priorities.
AgentLists ==
  UNION ( {[1..n -> Catalog] : n \in 0..MaxMixed}
            \cup {[1..n -> LongCatalog] : n \in (MaxMixed + 1)..MaxAgents} )

\* process.cwd(): an absolute path.
Cwds == { <<"/", "w">> }

\* The names `groups`, an object literal, inherits from Object.prototype:
\* groups[name] is truthy for each of them and has no push method.
InheritedNames ==
  {"constructor", "__defineGetter__", "__defineSetter__", "hasOwnProperty",
   "__lookupGetter__", "__lookupSetter__", "isPrototypeOf",
   "propertyIsEnumerable", "toString", "valueOf", "__proto__",
   "toLocaleString"}

\* groupByPriority throws a TypeError (groups[agent.priority].push is not a
\* function) at the first worker whose priority is an inherited name.
groupByPriorityThrows(ags) ==
  \E i \in 1..Len(ags) : ags[i].priority \in InheritedNames

\* groupByPriority: the workers (by index) of each priority in input order,
\* a worker whose priority is no property of `groups` going to medium; the
\* non-empty groups, in the order of the keys. "TypeError" stands for the
\* exception.
groupByPriority(ags) ==
  IF groupByPriorityThrows(ags) THEN "TypeError"
  ELSE LET idx == [i \in 1..Len(ags) |-> i]
           key(i) == IF ags[i].priority \in Range(Priorities)
                       THEN ags[i].priority ELSE "medium"
           group(pr) == SelectSeq(idx, LAMBDA i : key(i) = pr)
           all == [g \in 1..Len(Priorities) |-> group(Priorities[g])]
       IN SelectSeq(all, LAMBDA g : Len(g) > 0)

\* maxConcurrency = Math.min(agents.length, 4)
maxConcurrency(ags) == Min(Len(ags), MAX_CONCURRENCY)

\* A launcher that takes the whole group.
limitedGroup_whole(ags, g) == groupByPriority(ags)[g]

\* limitedGroup = group.slice(0, maxConcurrency)
limitedGroup(ags, g) ==
  LET group == groupByPriority(ags)[g]
  IN SubSeq(group, 1, Min(Len(group), maxConcurrency(ags)))

\* An AgentSandbox.execute call and the runAgentInSandbox call it makes.
\*   st        where runAgentInSandbox is: "idle" not called; "probe" in
\*             getClaudeCommand, awaiting executeCommand(claudeCommands[k],
\*             ['--version']); "launch" awaiting executeCommand of the worker
\*             launcher; "done"
\*   proc      what the awaited executeCommand call did: "failed" (its
\*             promise is rejected) or "running" (a child process runs)
\*   timer     the delay of the setTimeout racing the run, 0 when not armed
\*   settle    the promise execute() returned: "pending", "fulfilled" or
\*             "rejected"
\*   error, issues   the fields of the returned result
\*   launches  calls of executeCommand for the worker launcher
\*   threw     an exception was raised inside the try block
IdleRun ==
  [st |-> "idle", k |-> 0, proc |-> "none", timer |-> 0, settle |-> "pending",
   error |-> "none", issues |-> 0, launches |-> 0, threw |-> FALSE]

\* A launcher that starts the first worker of the group only before it
\* waits.
groupPromises_firstOnly(ags, g) == {limitedGroup(ags, g)[1]}

\* groupPromises = limitedGroup.map(agent => sandbox.execute(...)): the
\* workers of the group whose execute() has been called when map returns.
groupPromises(ags, g) == Range(limitedGroup(ags, g))

\* new AgentSandbox(agent, context): this.timeout, the delay of the race.
sandboxTimeout(agent) == AGENT_TIMEOUT

ProcOf(command, processCwd) ==
  IF executeCommand(command, processCwd) = "spawned" THEN "running" ELSE "failed"

SpawnCount(command, processCwd) ==
  IF executeCommand(command, processCwd) = "spawned" THEN 1 ELSE 0

\* execute() up to its first suspension: createSandbox, the timeout promise
\* (setTimeout is armed), runAgentInSandbox, which enters getClaudeCommand
\* and calls executeCommand for the first launcher name.
executeStart(agent, processCwd) ==
  [IdleRun EXCEPT !.st = "probe", !.k = 1,
                  !.proc = ProcOf(claudeCommands[1], processCwd),
                  !.timer = sandboxTimeout(agent)]

\* A catch block that lets the exception escape execute().
executeCatch_rethrow(r, err) ==
  [r EXCEPT !.st = "done", !.k = 0, !.proc = "none", !.settle = "rejected",
            !.threw = TRUE]

\* The catch block of execute(): the exception becomes the returned result,
\* with the sanitized message as error and no issue.
executeCatch(r, err) ==
  [r EXCEPT !.st = "done", !.k = 0, !.proc = "none", !.settle = "fulfilled",
            !.error = err, !.issues = 0, !.threw = TRUE]

\* What the child process of a worker launcher printed.
ChildOutputs ==
  { <<>>,
    <<"a">>,
    <<"I", "N", "F", "O", ":", "a">>,
    <<"I", "N", "F", "O", ":", "a", "\n", "C", "R", "I", "T", "I", "C", "A", "L", ":", "a">> }

\* The continuation of runAgentInSandbox when the executeCommand call it
\* awaits is over; exit is "ok" when the child process ended with status 0
\* and stdout is what it printed, "fail" when the call was rejected.
\*   probe, ok     getClaudeCommand returns the name; runAgentInSandbox calls
\*                 executeCommand(claudeCmd, commandArgs)
\*   probe, fail   the next name is tried; after the last one getClaudeCommand
\*                 throws
\*   launch, ok    parseAgentOutput(result.stdout) is returned
\*   launch, fail  the rejection leaves runAgentInSandbox
runResume(r, exit, stdout, processCwd) ==
  IF r.st = "probe" /\ exit = "ok"
    THEN [r EXCEPT !.st = "launch",
                   !.proc = ProcOf(claudeCommands[r.k], processCwd),
                   !.launches = r.launches + 1]
  ELSE IF r.st = "probe" /\ r.k < Len(claudeCommands)
    THEN [r EXCEPT !.k = r.k + 1,
                   !.proc = ProcOf(claudeCommands[r.k + 1], processCwd)]
  ELSE [r EXCEPT !.st = "done", !.k = 0, !.proc = "none"]

\* The continuation of a run. While the promise of execute() is pending,
\* the end of runAgentInSandbox wins Promise.race: its result is sanitized
\* and returned (the issues of the output, counted here), or its exception
\* is caught. After the timer has won the race, runAgentInSandbox goes on
\* all the same, and what it ends with is dropped.
executeResume(r, exit, stdout, processCwd) ==
  LET n == runResume(r, exit, stdout, processCwd)
  IN IF r.settle # "pending" \/ n.st # "done" THEN n
     ELSE IF r.st = "probe" THEN executeCatch(r, "notfound")
     ELSE IF exit = "ok"
       THEN [n EXCEPT !.settle = "fulfilled",
                      !.issues = Len(executeReturn(stdout, Worker).issues)]
     ELSE executeCatch(r, "failed")

\* Child processes started by the step executeResume(r, exit, cwd).
ResumeSpawns(r, exit, processCwd) ==
  IF r.st = "probe" /\ exit = "ok" THEN SpawnCount(claudeCommands[r.k], processCwd)
  ELSE IF r.st = "probe" /\ r.k < Len(claudeCommands)
    THEN SpawnCount(claudeCommands[r.k + 1], processCwd)
  ELSE 0

\* The promise execute() returned is not settled yet.
Pending(r) == r.st # "idle" /\ r.settle = "pending"

\* runAgentInSandbox awaits an executeCommand call.
Suspended(r) == r.st \in {"probe", "launch"}

\* The catch block of execute() entered from the rejected race: the error
\* result is returned, runAgentInSandbox and the call it awaits are left
\* as they are.
timeoutCatch(r) ==
  [r EXCEPT !.settle = "fulfilled", !.error = "timeout", !.issues = 0,
            !.threw = TRUE]

\* An expiry that ends every run still suspended.
raceTimeout_cancelAll(runs, i) ==
  [j \in DOMAIN runs |->
     IF Pending(runs[j]) THEN timeoutCatch(runs[j]) ELSE runs[j]]

\* The timeout promise rejects first: Promise.race rejects and execute()
\* catches it. Nothing else is touched: no timer is cleared, no child
\* process is killed, runAgentInSandbox is not cancelled.
raceTimeout(runs, i) ==
  [runs EXCEPT ![i] = timeoutCatch(runs[i])]

\* A join that resolves with the first settled promise.
allSettled_any(runs, group) == \E n \in 1..Len(group) : ~Pending(runs[group[n]])

\* A join that fails as a whole on the first failed run.
groupResults_all(runs, group) ==
  [n \in 1..Len(group) |->
     IF \E m \in 1..Len(group) : runs[group[m]].error # "none"
       THEN LET first == CHOOSE f \in 1..Len(group) :
                           /\ runs[group[f]].error # "none"
                           /\ \A l \in 1..(f - 1) : runs[group[l]].error = "none"
            IN [agent |-> group[n], error |-> runs[group[first]].error, issues |-> 0]
       ELSE [agent |-> group[n], error |-> "none", issues |-> runs[group[n]].issues]]

\* Promise.allSettled(groupPromises) has resolved: every promise is settled.
allSettled(runs, group) == \A n \in 1..Len(group) : ~Pending(runs[group[n]])

\* A collection that pushes the results of a group in reverse order.
groupResults_reversed(runs, group) ==
  [n \in 1..Len(group) |->
     LET i == group[Len(group) + 1 - n]
     IN [agent |-> i,
         error |-> IF runs[i].settle = "fulfilled" THEN runs[i].error ELSE "rejected",
         issues |-> IF runs[i].settle = "fulfilled" THEN runs[i].issues ELSE 0]]

\* The forEach over groupResults: the value of a fulfilled promise, or a
\* result built from the reason of a rejected one.
groupResults(runs, group) ==
  [n \in 1..Len(group) |->
     LET r == runs[group[n]]
     IN IF r.settle = "fulfilled"
          THEN [agent |-> group[n], error |-> r.error, issues |-> r.issues]
          ELSE [agent |-> group[n], error |-> "rejected", issues |-> 0]]

ExecInit ==
  /\ agents \in AgentLists
  /\ cwd \in Cwds
  /\ tier = 0
  /\ phase = "start"
  /\ run = [i \in 1..Len(agents) |-> IdleRun]
  /\ results = <<>>
  /\ elapsed = 0
  /\ spawns = 0
  /\ sbx = NoSandbox
  /\ call = NoCall
  /\ text = <<>>
  /\ res = NoRes
  /\ clock = 0
  /\ cache = <<>>
  /\ own = [n |-> 0, undef |-> FALSE]
  /\ ret = NoGet
  /\ pend = EmptyBag

\* The next iteration of `for (const group of groups)`: limitedGroup.map
\* calls execute() for every worker of the group, one after the other
\* without suspension, and executeAgents awaits Promise.allSettled.
StartGroup ==
  /\ phase = "start"
  /\ ~groupByPriorityThrows(agents)
  /\ tier < Len(groupByPriority(agents))
  /\ LET group == limitedGroup(agents, tier + 1)
     IN /\ run' = [i \in 1..Len(agents) |->
                     IF i \in groupPromises(agents, tier + 1)
                       THEN executeStart(agents[i], cwd)
                       ELSE run[i]]
        /\ spawns' = spawns + Len(group) * SpawnCount(claudeCommands[1], cwd)
  /\ tier' = tier + 1
  /\ phase' = "join"
  /\ elapsed' = 0
  /\ UNCHANGED <<agents, cwd, results>>
  /\ UNCHANGED <<cacheVars, guardVars, textVars>>

\* A suspended run resumes, also one its timer has abandoned, and then at
\* any later moment. How long a suspension lasts is left open: the timer of
\* the run may fire first, whatever the awaited call did.
Resume(i, exit, stdout) ==
  /\ i \in 1..Len(agents)
  /\ Suspended(run[i])
  /\ run[i].proc = "failed" => exit = "fail"
  /\ exit = "fail" => stdout = <<>>
  /\ run' = [run EXCEPT ![i] = executeResume(run[i], exit, stdout, cwd)]
  /\ spawns' = spawns + ResumeSpawns(run[i], exit, cwd)
  /\ UNCHANGED <<agents, cwd, tier, phase, results, elapsed>>
  /\ UNCHANGED <<cacheVars, guardVars, textVars>>

\* The timer of a run that is still suspended fires.
Timeout(i) ==
  /\ phase = "join"
  /\ i \in 1..Len(agents)
  /\ Pending(run[i])
  /\ elapsed >= run[i].timer
  /\ run' = raceTimeout(run, i)
  /\ UNCHANGED <<agents, cwd, tier, phase, results, elapsed, spawns>>
  /\ UNCHANGED <<cacheVars, guardVars, textVars>>

\* A minute passes while runs are suspended; an armed timer fires on time.
Minute ==
  /\ phase = "join"
  /\ \E i \in 1..Len(agents) : Pending(run[i])
  /\ \A i \in 1..Len(agents) : Pending(run[i]) => elapsed < run[i].timer
  /\ elapsed' = elapsed + 1
  /\ UNCHANGED <<agents, cwd, tier, phase, run, results, spawns>>
  /\ UNCHANGED <<cacheVars, guardVars, textVars>>

\* Promise.allSettled resolves and the results of the group are pushed; the
\* time since the launch of the group is of no use any more.
JoinGroup ==
  /\ phase = "join"
  /\ allSettled(run, limitedGroup(agents, tier))
  /\ results' = results \o groupResults(run, limitedGroup(agents, tier))
  /\ phase' = "start"
  /\ elapsed' = 0
  /\ UNCHANGED <<agents, cwd, tier, run, spawns>>
  /\ UNCHANGED <<cacheVars, guardVars, textVars>>

\* groupByPriority throws: the promise of executeAgents is rejected before
\* any sandbox is made.
Reject ==
  /\ phase = "start"
  /\ tier = 0
  /\ agents # <<>>
  /\ groupByPriorityThrows(agents)
  /\ phase' = "rejected"
  /\ UNCHANGED <<agents, cwd, tier, run, results, elapsed, spawns>>
  /\ UNCHANGED <<cacheVars, guardVars, textVars>>

\* `return results` (for an empty argument, `return []`).
Return ==
  /\ phase = "start"
  /\ ~groupByPriorityThrows(agents)
  /\ tier = Len(groupByPriority(agents))
  /\ phase' = "returned"
  /\ UNCHANGED <<agents, cwd, tier, run, results, elapsed, spawns>>
  /\ UNCHANGED <<cacheVars, guardVars, textVars>>

ExecNext ==
  \/ StartGroup
  \/ \E i \in 1..Len(agents), exit \in {"ok", "fail"}, stdout \in ChildOutputs :
       Resume(i, exit, stdout)
  \/ \E i \in 1..Len(agents) : Timeout(i)
  \/ Minute
  \/ JoinGroup
  \/ Reject
  \/ Return

SpecExec == ExecInit /\ [][ExecNext]_vars

(***************************************************************************)
(* The facades of a sandbox: createReadOnlyFileSystem and                  *)
(* createRestrictedTerminal                                                *)
(***************************************************************************)
\* Longest path given to validatePath and to the file facade.
MaxPathLen == 4
\* Longest command line given to the terminal facade, in pieces.
MaxLineLen == 3

\* The characters paths are made of.
PathChars == {"a", ".", "/", "~", "NUL", "j", "s"}
Paths == UNION {[1..n -> PathChars] : n \in 0..MaxPathLen}

\* The pieces command lines are made of: a space, a double or a single
\* quote, a backslash, or a run of ordinary characters (the parser treats
\* ordinary characters alike, one by one).
LinePieces == {"git", "rm", "claude", " ", "\"", "'", "\\"}
Lines == UNION {[1..n -> LinePieces] : n \in 0..MaxLineLen}

\* Command names given to executeCommand directly.
Commands == {"git", "mkdir", "claude-code", "claude", "rm", "sh"}

\* The sandboxes: the files of the run, and agent.allowedCommands.
Sandboxes ==
  [files : { {<<"a">>}, {<<"a">>, <<"a", ".", "j", "s">>} },
   allowedCommands : { {"git"}, {"git", "rm"} }]

\* allowedFiles = new Set(files.map(f => path.resolve(f)))
allowedFiles(files, processCwd) == {resolve(processCwd, f) : f \in files}

\* A file facade whose read does not look at allowedFiles.
fsRead_any(files, filePath, processCwd, contextReady) ==
  IF ~validatePath(filePath, processCwd).ok THEN "invalid"
  ELSE IF ~contextReady THEN "error"
  ELSE "pending"

\* files.read(filePath) up to its await: validatePath, the membership
\* test, the test of this.context (a failure is caught and thrown again as
\* a read error), then the call of this.context.files.read, whose promise
\* it awaits ("pending").
fsRead(files, filePath, processCwd, contextReady) ==
  LET v == validatePath(filePath, processCwd)
  IN IF ~v.ok THEN "invalid"
     ELSE IF v.path \notin allowedFiles(files, processCwd) THEN "denied"
     ELSE IF ~contextReady THEN "error"
     ELSE "pending"

\* files.read(filePath) from its await on: the content is returned
\* (io = "ok"), or the rejection is caught and thrown again as a read
\* error.
fsReadResume(io) == IF io = "ok" THEN "content" ELSE "error"

\* files.exists(filePath): throws for an invalid path, else the membership.
fsExists(files, filePath, processCwd) ==
  LET v == validatePath(filePath, processCwd)
  IN IF ~v.ok THEN "invalid"
     ELSE IF v.path \in allowedFiles(files, processCwd) THEN "true"
     ELSE "false"

\* files.write(): always throws.
fsWrite == "denied"

\* The parsing loop of terminal.run, from piece i on, with the words found
\* (args), the word being read (current), inQuotes and escaped. `current`
\* is reset only when a word is pushed.
RECURSIVE ParseLoop(_, _, _, _, _, _)
ParseLoop(line, i, args, current, inQuotes, escaped) ==
  IF i > Len(line)
    THEN IF Trim(current) # <<>> THEN Append(args, Trim(current)) ELSE args
  ELSE IF escaped
    THEN ParseLoop(line, i + 1, args, Append(current, line[i]), inQuotes, FALSE)
  ELSE IF line[i] = "\\"
    THEN ParseLoop(line, i + 1, args, current, inQuotes, TRUE)
  ELSE IF line[i] \in {"\"", "'"}
    THEN ParseLoop(line, i + 1, args, current, ~inQuotes, FALSE)
  ELSE IF line[i] = " " /\ ~inQuotes
    THEN IF Trim(current) # <<>>
           THEN ParseLoop(line, i + 1, Append(args, Trim(current)), <<>>, inQuotes, FALSE)
           ELSE ParseLoop(line, i + 1, args, current, inQuotes, FALSE)
  ELSE ParseLoop(line, i + 1, args, Append(current, line[i]), inQuotes, FALSE)

parseCommand(line) == ParseLoop(line, 1, <<>>, <<>>, FALSE, FALSE)

\* A word as a command name: a single run of ordinary characters is that
\* name; any other word is no name of any list.
CommandName(word) == IF Len(word) = 1 THEN word[1] ELSE "other"

\* command.length > 1000
MAX_COMMAND_LENGTH == 1000

\* command.length: the pieces of a line are strings.
RECURSIVE LineLength(_)
LineLength(line) ==
  IF line = <<>> THEN 0 ELSE Len(Head(line)) + LineLength(Tail(line))

\* A terminal facade that does not look at agent.allowedCommands.
terminalRun_unrestricted(allowedCommands, line, processCwd) ==
  IF line = <<>> THEN [out |-> "invalid", executed |-> FALSE, command |-> "none"]
  ELSE IF LineLength(line) > MAX_COMMAND_LENGTH
    THEN [out |-> "toolong", executed |-> FALSE, command |-> "none"]
  ELSE IF parseCommand(line) = <<>>
    THEN [out |-> "empty", executed |-> FALSE, command |-> "none"]
  ELSE LET cmd == CommandName(parseCommand(line)[1])
       IN [out |-> executeCommand(cmd, processCwd), executed |-> TRUE,
           command |-> cmd]

\* terminal.run(command): the input test, the parsing, the test against
\* agent.allowedCommands, then SecurityUtils.executeCommand(cmd, cmdArgs).
\*   out       "invalid", "toolong", "empty", "notAllowed", or what
\*             executeCommand did
\*   executed  executeCommand was called
\*   command   the parsed command name
terminalRun(allowedCommands, line, processCwd) ==
  IF line = <<>> THEN [out |-> "invalid", executed |-> FALSE, command |-> "none"]
  ELSE IF LineLength(line) > MAX_COMMAND_LENGTH
    THEN [out |-> "toolong", executed |-> FALSE, command |-> "none"]
  ELSE IF parseCommand(line) = <<>>
    THEN [out |-> "empty", executed |-> FALSE, command |-> "none"]
  ELSE LET cmd == CommandName(parseCommand(line)[1])
       IN IF cmd \notin allowedCommands
            THEN [out |-> "notAllowed", executed |-> FALSE, command |-> cmd]
            ELSE [out |-> executeCommand(cmd, processCwd), executed |-> TRUE,
                  command |-> cmd]

\* A sandbox built for some files and some worker, in a process whose
\* working directory is cwd.
GuardInit ==
  /\ cwd \in Cwds
  /\ sbx \in Sandboxes
  /\ call = NoCall
  /\ text = <<>>
  /\ res = NoRes
  /\ agents = <<>>
  /\ tier = 0
  /\ phase = "returned"
  /\ run = <<>>
  /\ results = <<>>
  /\ elapsed = 0
  /\ spawns = 0
  /\ clock = 0
  /\ cache = <<>>
  /\ own = [n |-> 0, undef |-> FALSE]
  /\ ret = NoGet
  /\ pend = EmptyBag

GuardFrame ==
  /\ UNCHANGED <<agents, cwd, tier, phase, run, results, elapsed, spawns, sbx>>
  /\ UNCHANGED <<cacheVars, textVars>>

\* SecurityUtils.validatePath(userPath), baseDir being process.cwd().
ValidatePath(userPath) ==
  /\ LET v == validatePath(userPath, cwd)
     IN call' = [NoCall EXCEPT !.op = "validatePath", !.path = userPath,
                               !.out = IF v.ok THEN "ok" ELSE "throws",
                               !.resolved = v.path]
  /\ GuardFrame

\* SecurityUtils.executeCommand(command).
ExecuteCommand(command) ==
  /\ LET out == executeCommand(command, cwd)
     IN call' = [NoCall EXCEPT !.op = "executeCommand", !.command = command,
                               !.out = out, !.executed = TRUE,
                               !.spawned = (out = "spawned")]
  /\ GuardFrame

\* sandbox.files.read(filePath) is called and runs up to its await.
FsRead(filePath, contextReady) ==
  /\ call' = [NoCall EXCEPT !.op = "read", !.path = filePath,
                            !.out = fsRead(sbx.files, filePath, cwd, contextReady)]
  /\ GuardFrame

\* sandbox.files.read resumes: this.context.files.read has settled.
FsReadResume(io) ==
  /\ call.op = "read"
  /\ call.out = "pending"
  /\ call' = [call EXCEPT !.out = fsReadResume(io)]
  /\ GuardFrame

\* sandbox.files.exists(filePath)
FsExists(filePath) ==
  /\ call' = [NoCall EXCEPT !.op = "exists", !.path = filePath,
                            !.out = fsExists(sbx.files, filePath, cwd)]
  /\ GuardFrame

\* sandbox.files.write(...)
FsWrite(filePath) ==
  /\ call' = [NoCall EXCEPT !.op = "write", !.path = filePath, !.out = fsWrite]
  /\ GuardFrame

\* sandbox.terminal.run(command)
TerminalRun(line) ==
  /\ LET r == terminalRun(sbx.allowedCommands, line, cwd)
     IN call' = [NoCall EXCEPT !.op = "run", !.line = line,
                               !.command = r.command, !.out = r.out,
                               !.executed = r.executed,
                               !.spawned = (r.out = "spawned")]
  /\ GuardFrame

\* The calls are independent of one another (no guard or facade keeps
\* state): a behaviour makes one, and a read goes on after its await.
GuardNext ==
  \/ /\ call = NoCall
     /\ \/ \E userPath \in Paths : ValidatePath(userPath)
        \/ \E command \in Commands : ExecuteCommand(command)
        \/ \E filePath \in Paths, contextReady \in BOOLEAN :
             FsRead(filePath, contextReady)
        \/ \E filePath \in Paths : FsExists(filePath)
        \/ \E filePath \in Paths : FsWrite(filePath)
        \/ \E line \in Lines : TerminalRun(line)
  \/ \E io \in {"ok", "fail"} : FsReadResume(io)

SpecGuard == GuardInit /\ [][GuardNext]_vars

(***************************************************************************)
(* Claims about ResultCache                                                *)
(***************************************************************************)
Keys(c) == {c[i].key : i \in 1..Len(c)}
Entries(c) == {c[i] : i \in 1..Len(c)}

\* C8: after any sequence of set operations, several of them within one
\* clock tick included, the cache never holds more than maxSize entries.
C8_CapacityBound == Len(cache) <= maxSize

\* C9: a set for a new key made while the cache holds maxSize entries removes
\* exactly one existing entry, the one with the oldest timestamp, and keeps
\* every other entry.
C9_EvictsExactlyOldest ==
  [][ (Len(cache) = maxSize /\ Keys(cache') \ Keys(cache) # {})
        => \E i \in 1..Len(cache) :
             /\ \A j \in 1..Len(cache) : cache[i].timestamp <= cache[j].timestamp
             /\ cache[i].key \notin Keys(cache')
             /\ Entries(cache) \ {cache[i]} \subseteq Entries(cache') ]_vars

\* C10: a get after a set returns the stored value in an object of its own:
\* when the caller mutates the object a get returned, the entry still holds
\* the value the set stored, which is what a subsequent get returns.
C10_GetIsolated ==
  \A i \in 1..Len(cache) : EntryValue(cache[i]) = cache[i].stored

(***************************************************************************)
(* Claims about executeAgents and AgentSandbox.execute                     *)
(***************************************************************************)
\* The tier of a worker as the specification orders them: critical, high,
\* medium, low, a worker without priority counting as medium.
PriorityRank(agent) ==
  CASE agent.priority = "critical" -> 1
    [] agent.priority = "high" -> 2
    [] agent.priority = "low" -> 4
    [] OTHER -> 3

\* The workers executeAgents launches: none when groupByPriority throws,
\* else the ones of limitedGroup, for every group.
Launched ==
  IF groupByPriorityThrows(agents) THEN {}
  ELSE UNION {Range(limitedGroup(agents, g)) :
                g \in 1..Len(groupByPriority(agents))}

ResultsFor(i) == {n \in 1..Len(results) : results[n].agent = i}

\* C1: tiers run strictly in the order critical, high, medium, low: when a
\* sandbox run of a later tier has started, every launched worker of every
\* earlier tier has ended its run and its result has been collected.
C1_TierOrder ==
  \A j \in 1..Len(agents) :
    run[j].st # "idle" =>
      \A i \in Launched :
        PriorityRank(agents[i]) < PriorityRank(agents[j])
          => (~Pending(run[i]) /\ ResultsFor(i) # {})

\* A worker of a later tier is running after two workers of an earlier tier
\* ended differently.
C1_Witness ==
  \E i, j, l \in 1..Len(agents) :
    /\ PriorityRank(agents[i]) < PriorityRank(agents[l])
    /\ PriorityRank(agents[j]) < PriorityRank(agents[l])
    /\ run[i].error = "timeout"
    /\ run[j].error = "notfound"
    /\ Pending(run[l])

\* C2: for every tier size, also beyond four, the returned list holds
\* exactly one result per input worker: no worker is skipped.
C2_OneResultPerWorker ==
  phase = "returned" =>
    /\ Len(results) = Len(agents)
    /\ \A i \in 1..Len(agents) : Cardinality(ResultsFor(i)) = 1

\* C3: the failure of a run never aborts the batch: executeAgents is never
\* rejected once a run has begun, and it returns, for every worker it
\* launched, one result, which is the outcome of that worker's own run.
C3_FailureIsolated ==
  /\ phase = "rejected" => \A i \in 1..Len(agents) : run[i].st = "idle"
  /\ phase = "returned" =>
       \A i \in Launched :
         \E n \in 1..Len(results) :
           /\ ResultsFor(i) = {n}
           /\ results[n].error = run[i].error
           /\ results[n].issues = run[i].issues

\* executeAgents has returned after two workers of one tier failed in
\* different ways.
C3_Witness ==
  /\ phase = "returned"
  /\ \E i, j \in Launched :
       /\ PriorityRank(agents[i]) = PriorityRank(agents[j])
       /\ run[i].error = "timeout"
       /\ run[j].error = "notfound"

\* C4: execute() never throws: an exception raised inside it (a timeout
\* included) becomes a returned result with the error set and no issue.
C4_ExecuteNeverThrows ==
  \A i \in 1..Len(agents) :
    /\ run[i].settle # "rejected"
    /\ run[i].threw =>
         (run[i].settle = "fulfilled" /\ run[i].error # "none" /\ run[i].issues = 0)

\* One run ended on the failed launcher lookup, another on its timer.
C4_Witness ==
  \E i, j \in 1..Len(agents) :
    /\ run[i].threw /\ run[i].error = "notfound"
    /\ run[j].threw /\ run[j].error = "timeout"

\* C5: a run is raced against its own worker's timeout: the timer armed for
\* it has the worker's declared timeout as delay, and no run is still
\* suspended after that time.
C5_OwnTimeout ==
  \A i \in 1..Len(agents) :
    /\ run[i].st # "idle" => run[i].timer = agents[i].timeout
    /\ Pending(run[i]) => elapsed <= agents[i].timeout

\* C6: a run whose timer fires is reported as an error result without
\* issues, and the report never changes afterwards; the launcher is called
\* at most once for a run (no retry); and the expiry leaves every other run
\* as it is.
C6_TimeoutIsLocal ==
  [][ \A i \in 1..Len(agents) :
        /\ run[i].error = "timeout" =>
             /\ run'[i].settle = run[i].settle
             /\ run'[i].error = run[i].error
             /\ run'[i].issues = run[i].issues
        /\ run'[i].launches <= 1
        /\ (run[i].error # "timeout" /\ run'[i].error = "timeout") =>
             /\ run'[i].settle = "fulfilled"
             /\ run'[i].issues = 0
             /\ run'[i].launches = run[i].launches
             /\ \A j \in 1..Len(agents) : j # i => run'[j] = run[j]
        /\ \A n \in ResultsFor(i) :
             run[i].error = "timeout" =>
               (results[n].error = "timeout" /\ results[n].issues = 0) ]_vars

\* The result of a timed-out run has been collected, and a run of its tier
\* that was still suspended at the expiry ended on its own.
C6_Witness ==
  \E i, j \in 1..Len(agents) :
    /\ PriorityRank(agents[i]) = PriorityRank(agents[j])
    /\ run[i].error = "timeout"
    /\ run[j].error = "notfound"
    /\ \E n \in ResultsFor(i) : results[n].error = "timeout"

\* C7: the scheduler consults the ResultCache before it launches a sandbox
\* run: when the run of a worker has begun, a get() of the cache has
\* returned.
C7_SchedulerConsultsCache ==
  (\E i \in 1..Len(run) : run[i].st # "idle") => ret.status # "none"

(***************************************************************************)
(* Further claims about ResultCache                                        *)
(***************************************************************************)
\* C11: set() stores a deep copy: whatever the caller does to its result
\* object after set() has completed, an entry that was not handed out by
\* get() still holds the value it was stored with.
C11_SetStoresCopy ==
  \A i \in 1..Len(cache) :
    ~cache[i].held => EntryValue(cache[i]) = cache[i].stored

\* The caller has changed its object after a set(), and the entry, not yet
\* handed out, holds the value from before the change.
C11_Witness ==
  /\ own.n = 1
  /\ \E i \in 1..Len(cache) :
       ~cache[i].held /\ cache[i].stored.n = 0 /\ EntryValue(cache[i]).n = 0

\* C12: get() never returns an entry whose age, Date.now() minus its
\* insertion timestamp, is the TTL or more.
C12_NoStaleHit == ret.status = "hit" => ret.age < ttl

\* A get() found its key in the map with an entry as old as the TTL, and
\* returned nothing.
C12_Witness == ret.status = "null" /\ ret.found /\ ret.age >= ttl

\* C13: a get() for a request whose stored entry is past the TTL evicts
\* that entry: when the get() returns nothing, no entry stored for its
\* request with an age of the TTL or more is left in the cache.
C13_ExpiredEvicted ==
  [][ (ret' # ret /\ ret'.status = "null") =>
        \A i \in 1..Len(cache) :
          (cache[i].req = ret'.req /\ clock - cache[i].timestamp >= ttl)
            => cache[i].key \notin Keys(cache') ]_vars

\* C14: when get() and set() calls overlap and interleave at their
\* suspension points, no completed set() is lost, the entry it wrote is in
\* the cache when it completes, and the capacity bound still holds.
C14_ConcurrentSafe ==
  [][ /\ \A p \in BagToSet(pend) :
           (p.op = "set" /\ pend' = pend (-) SetToBag({p}))
             => p.key \in Keys(cache')
      /\ Len(cache') <= maxSize ]_vars

(***************************************************************************)
(* Claims about the guards and the facades                                 *)
(***************************************************************************)
\* C15: for a command that is not in the static allow-list, executeCommand
\* fails with the allow-list rejection and execFile is not called.
C15_UnlistedCommandRejected ==
  (call.executed /\ call.command \notin ALLOWED_COMMANDS)
    => (call.out = "rejected" /\ ~call.spawned)

\* executeCommand was called for rm and rejected it.
C15_Witness ==
  call.op = "executeCommand" /\ call.command = "rm" /\ call.out = "rejected"

\* The segments of a path, and whether a resolved path lies under a root
\* (is the root or below it) or strictly within it (below it).
SegmentsOf(p) == SplitSegs(p, 1, <<>>)
RootSegs == NormSegs(SegmentsOf(cwd), 1, <<>>)
UnderRoot(p) ==
  LET segs == NormSegs(SegmentsOf(p), 1, <<>>)
  IN Len(segs) >= Len(RootSegs) /\ SubSeq(segs, 1, Len(RootSegs)) = RootSegs
StrictlyWithinRoot(p) ==
  UnderRoot(p) /\ Len(NormSegs(SegmentsOf(p), 1, <<>>)) > Len(RootSegs)

\* C16: validatePath fails for every path that has a traversal segment, a
\* home marker or a NUL byte, or that resolves outside the root, and the
\* path it returns is under the resolved root.
C16_UnsafePathRejected ==
  call.op = "validatePath" =>
    /\ ( \/ <<".", ".">> \in Range(SegmentsOf(call.path))
         \/ "~" \in Range(call.path)
         \/ "NUL" \in Range(call.path)
         \/ ~UnderRoot(resolve(cwd, call.path)) )
         => call.out = "throws"
    /\ call.out = "ok" => UnderRoot(call.resolved)

\* validatePath rejected a path with a traversal segment that resolves
\* inside the root.
C16_Witness ==
  /\ call.op = "validatePath"
  /\ call.path = <<"a", "/", ".", ".">>
  /\ call.out = "throws"

\* C17: for every path that resolves strictly within the root (and has no
\* traversal sequence, home marker or NUL byte), validatePath succeeds and
\* returns a path that starts with the resolved root.
C17_InRootPathAccepted ==
  ( /\ call.op = "validatePath"
    /\ call.path # <<>>
    /\ ~HasSub(call.path, <<".", ".">>)
    /\ "~" \notin Range(call.path)
    /\ "NUL" \notin Range(call.path)
    /\ StrictlyWithinRoot(resolve(cwd, call.path)) )
    => (call.out = "ok" /\ UnderRoot(call.resolved))

\* The validated files of the sandbox, as resolved paths.
Members == {resolve(cwd, f) : f \in sbx.files}

\* C18: through the file facade every write fails, every read of a path
\* that is no member of the files of the run fails, and exists answers true
\* only for a member.
C18_FacadeReadOnly ==
  /\ call.op = "write" => call.out = "denied"
  /\ (call.op = "read" /\ resolve(cwd, call.path) \notin Members)
       => call.out \in {"invalid", "denied"}
  /\ (call.op = "exists" /\ call.out = "true")
       => resolve(cwd, call.path) \in Members

\* A read of a valid path outside the files of the run was denied.
C18_Witness ==
  /\ call.op = "read"
  /\ call.path = <<"s">>
  /\ call.out = "denied"

\* C19: through the terminal facade a command reaches execFile only if its
\* name is in the worker's allowedCommands and in the static allow-list,
\* and a command outside the worker's set is rejected without a call of
\* executeCommand.
C19_TerminalRestricted ==
  call.op = "run" =>
    /\ call.spawned =>
         (call.command \in sbx.allowedCommands /\ call.command \in ALLOWED_COMMANDS)
    /\ call.command \notin sbx.allowedCommands =>
         (~call.executed /\ call.out \in {"invalid", "empty", "notAllowed"})

\* claude, which the static allow-list holds, was refused by the facade of
\* a worker that does not allow it, before executeCommand.
C19_Witness ==
  /\ call.op = "run"
  /\ call.command = "claude"
  /\ call.out = "notAllowed"
  /\ ~call.executed

\* C20: within a tier, the run of every launched worker has begun before
\* the scheduler waits: whenever one launched worker of a tier has begun,
\* all launched workers of that tier have.
C20_TierStartsTogether ==
  \A i \in Launched :
    run[i].st # "idle" =>
      \A j \in Launched :
        PriorityRank(agents[j]) = PriorityRank(agents[i]) => run[j].st # "idle"

\* Two runs of one tier are suspended together while a third has ended.
C20_Witness ==
  \E i, j, l \in 1..Len(agents) :
    /\ i # j
    /\ PriorityRank(agents[i]) = PriorityRank(agents[j])
    /\ PriorityRank(agents[i]) = PriorityRank(agents[l])
    /\ Pending(run[i]) /\ Pending(run[j])
    /\ run[l].st = "done"

(***************************************************************************)
(* Further claims about executeAgents                                      *)
(***************************************************************************)
\* The sandbox runs in flight: the execute() calls not yet settled.
InFlight == {i \in 1..Len(agents) : Pending(run[i])}

\* C21: at every moment of executeAgents at most maxConcurrency sandbox
\* runs, four at most, are in flight.
C21_ConcurrencyBound ==
  /\ Cardinality(InFlight) <= maxConcurrency(agents)
  /\ Cardinality(InFlight) <= MAX_CONCURRENCY

\* Four runs are in flight for a tier of five workers.
C21_Witness ==
  /\ Cardinality(InFlight) = MAX_CONCURRENCY
  /\ \E j \in 1..Len(agents) :
       /\ j \notin InFlight
       /\ \A i \in InFlight : PriorityRank(agents[i]) = PriorityRank(agents[j])

\* C22: the list executeAgents builds is the concatenation of the tier
\* results in tier order, each tier in the order of its workers in the input
\* list, whatever order the runs end in.
C22_ResultOrder ==
  \A m, n \in 1..Len(results) :
    m < n =>
      \/ PriorityRank(agents[results[m].agent]) < PriorityRank(agents[results[n].agent])
      \/ /\ PriorityRank(agents[results[m].agent]) = PriorityRank(agents[results[n].agent])
         /\ results[m].agent < results[n].agent

\* The returned list holds two workers of one tier, one ended by its timer
\* and one by the launcher lookup, after a worker of an earlier tier that
\* comes later in the input.
C22_Witness ==
  /\ phase = "returned"
  /\ \E l, m, n \in 1..Len(results) :
       /\ l < m /\ m < n
       /\ results[l].agent > results[n].agent
       /\ PriorityRank(agents[results[m].agent]) = PriorityRank(agents[results[n].agent])
       /\ results[m].error = "timeout"
       /\ results[n].error = "notfound"

\* C25: an allow-listed command given to executeCommand with the default
\* options is not failed before the spawn: the call reaches execFile.
C25_AllowListedCommandSpawns ==
  (call.op = "executeCommand" /\ call.command \in ALLOWED_COMMANDS)
    => (call.out = "spawned" /\ call.spawned)

\* C28: a get() for a request whose entry, stored by set() for the same
\* agent, the same readable files and the same iteration, is still in the
\* cache and younger than the TTL returns that entry.
C28_HitWithinTtl ==
  [][ \A p \in BagToSet(pend) :
        ( /\ p.op = "get"
          /\ pend' = pend (-) SetToBag({p})
          /\ p.req.file = "readable"
          /\ \E i \in 1..Len(cache) :
               cache[i].req = p.req /\ clock - cache[i].timestamp < ttl )
          => ret'.status = "hit" ]_vars

\* C29: a set() for a key that is already in a full cache keeps every key
\* of the cache and the size of the cache.
C29_ReplaceKeepsOthers ==
  [][ \A p \in BagToSet(pend) :
        ( /\ p.op = "set"
          /\ pend' = pend (-) SetToBag({p})
          /\ Len(cache) >= maxSize
          /\ p.key \in Keys(cache) )
          => /\ Len(cache') = Len(cache)
             /\ Keys(cache) \subseteq Keys(cache') ]_vars

(***************************************************************************)
(* Claims about the parsing and the sanitizing of texts                    *)
(***************************************************************************)
IssuesOfLevel(issues, level) == {k \in DOMAIN issues : issues[k].level = level}

\* C23: parseAgentOutput returns at most MATCH_LIMIT issues of any one
\* level and at most ISSUE_LIMIT issues in all, and what it returns is what
\* it returns for the first OUTPUT_LIMIT code units of the output alone.
C23_ParseCaps ==
  res.op = "parseAgentOutput" =>
    /\ \A l \in Range(Levels) :
         Cardinality(IssuesOfLevel(res.result.issues, l)) <= MATCH_LIMIT
    /\ Len(res.result.issues) <= ISSUE_LIMIT
    /\ res.result.issues = parseAgentOutput(Take(text, OUTPUT_LIMIT), Worker)

\* An output longer than the size ceiling was parsed; its first
\* OUTPUT_LIMIT code units hold more matches of one level than the cap, and
\* exactly the cap of them were returned.
C23_Witness ==
  /\ res.op = "parseAgentOutput"
  /\ Len(text) > OUTPUT_LIMIT
  /\ \E l \in Range(Levels) :
       /\ Len(matchAll(l, truncate(text), 1)) > MATCH_LIMIT
       /\ Cardinality(IssuesOfLevel(res.result.issues, l)) = MATCH_LIMIT

\* C24: the sanitizers are idempotent: sanitizeError applied to the message
\* it returned, and escapeHtml applied to the text it returned, return
\* that text unchanged.
C24_SanitizeIdempotent ==
  /\ res.op = "sanitizeError" => sanitizeError(res.out) = res.out
  /\ res.op = "escapeHtml" => escapeHtml(res.out) = res.out

\* C26: every issue of a parsed output and of a sanitized result has one of
\* the levels error, warning, info and suggestion.
C26_IssueLevels ==
  res.op \in {"parseAgentOutput", "sanitizeResult"} =>
    \A k \in DOMAIN res.result.issues :
      res.result.issues[k].level \in {"error", "warning", "info", "suggestion"}

\* A text holds a substring that one of the sensitivePatterns matches.
HasCredential(t) ==
  \E i \in 1..Len(t), k \in DOMAIN sensitivePatterns :
    MatchEnd(sensitivePatterns[k], t, i) # 0

\* C27: when the worker's output holds a credential-shaped substring, the
\* result that went through the parser and then sanitizeResult holds none,
\* neither in its raw output nor in the message of an issue.
C27_NoCredentialReturned ==
  (res.op = "sanitizeResult" /\ HasCredential(text)) =>
    /\ ~HasCredential(res.result.rawOutput)
    /\ \A k \in DOMAIN res.result.issues :
         ~HasCredential(res.result.issues[k].message)

\* C30: along parseAgentOutput and then sanitizeResult the escaping is
\* applied once: in the sanitized result the message of every issue is the
\* text captured from the output, trimmed and escaped once, and its file is
\* the file named in that text, escaped once; and parseAgentOutput alone
\* has escaped neither of them more than once.
C30_EscapedOnce ==
  LET caps == captures(truncate(text), 1)
      raw(k) == Trim(caps[k].text)
      rawFile(k) == IF fileMatch(raw(k)).found THEN fileMatch(raw(k)).file ELSE <<>>
  IN /\ res.op = "sanitizeResult" =>
          \A k \in DOMAIN res.result.issues :
            /\ res.result.issues[k].message = escapeHtml(raw(k))
            /\ res.result.issues[k].file = escapeHtml(rawFile(k))
     /\ res.op = "parseAgentOutput" =>
          \A k \in DOMAIN res.result.issues :
            /\ res.result.issues[k].message \in {raw(k), escapeHtml(raw(k))}
            /\ res.result.issues[k].file \in {rawFile(k), escapeHtml(rawFile(k))}

====
